---------------------------- MODULE Spec2Model ----------------------------
(***************************************************************************)
(* Model of src/src/traffic-simulator.js: the TrafficSimulator Durable     *)
(* Object (constructor, fetch, handleSimulateRequest, handleStatusRequest, *)
(* persistState, generateMetrics, getAIExplanation).                       *)
(*                                                                         *)
(* Conventions                                                             *)
(*  - A JavaScript value that may be null is a sequence of length <= 1:    *)
(*    <<>> is null/undefined, <<x>> is the value x.                        *)
(*  - A JavaScript string whose content matters for trim() is a sequence   *)
(*    of chunks; a chunk is either one whitespace character or a piece of  *)
(*    text that begins and ends with a non-whitespace character.  '' is    *)
(*    <<>>.                                                                *)
(*  - successRate is kept in tenths of a percent (100 is 1000, 98.4 is     *)
(*    984) because roundSuccess rounds to one decimal.                     *)
(*  - Math.random() is k / RandDen for a natural k < RandDen.              *)
(*  - Time is in milliseconds.                                             *)
(***************************************************************************)
EXTENDS Integers, Sequences, FiniteSets, TLC

(***************************************************************************)
(* Bounds of the model                                                     *)
(***************************************************************************)
RandDen == 20
NumCalls == 2
MaxNow == 30000
TickMs == 30000
MaxRestarts == 1
NumRequests == 2
NumInserts == 510
NumRecent == 8
MaxClockPeriod == 2
MaxPolls == 2
AppTickMs == 1000

(***************************************************************************)
(* Program constants                                                       *)
(***************************************************************************)
AITimeoutMs == 5000
ActiveWindowMs == 30000

validTypes == {"normal", "spike", "ddos"}

Null == <<>>
Some(x) == <<x>>
IsNull(o) == o = <<>>
Val(o) == o[1]

Calls == 1..NumCalls

VARIABLES
  currentSimulation,  \* this.currentSimulation (null or the simulation record)
  metrics,            \* this.metrics
  ready,              \* this.ready has resolved (the constructor's load is over)
  getFailed,          \* storage.get('state') rejected in the constructor: this.ready is rejected
  rejected,           \* the request whose fetch rejected at "await this.ready" in the last step (null when none did)
  stored,             \* the durable blob under the key 'state' (null when absent)
  now,                \* Date.now()
  pc,                 \* per simulate call: "idle", "awaitAI", "done"
  req,                \* per suspended simulate call: the request body it carried
  loc,                \* per suspended simulate call: the locals simulation, metrics, timestamp
  timer,              \* per suspended simulate call: the setTimeout of getAIExplanation
  aiRuns,             \* per suspended simulate call: number of env.AI.run invocations
  answered,           \* the simulate call that answered in the last step (null when none did)
  envAI,              \* the env.AI binding: "absent", "norun" or "present"
  statusResp,         \* the status response sent by the last step (null when it sent none)
  restarts,           \* number of times the object was re-created
  loaded,             \* what storage.get('state') gave the constructor (null: nothing, or not read yet)
  explained,          \* the getAIExplanation call that returned in the last step (null when none did)
  genIn,              \* generateMetrics in isolation: its argument and random draws
  genOut,             \* generateMetrics in isolation: its result (null before the call)
  history,            \* the rows of the D1 table simulation_metrics, in rowid order
  lastRowId,          \* the greatest id the table has given out (AUTOINCREMENT)
  inserted,           \* the timestamp of every row ever inserted, by row id
  prunes,             \* number of limitStoredMetrics tasks handed to ctx.waitUntil and not yet run
  pruned,             \* how the last limitStoredMetrics task ended: "none", "ok", "failed"
  wpc,                \* per Worker request: "idle", "sent", "awaitDO", "gotDO", "done"
  wloc,               \* per Worker request in flight: the locals type, simulationId, doResponse
  workerResp,         \* the Worker response sent by the last step (null when it sent none)
  seqClient,          \* the client that sends one request after the other: requests sent and to send, clock pattern
  app,                \* the dashboard: the state of the App component (metrics, currentStatus, loading, error, aiExplanation)
  appFetch,           \* the dashboard: its requests in flight and the time since its interval last ran
  appDone             \* the dashboard request that completed in the last step (null when none did)

vars == <<currentSimulation, metrics, ready, getFailed, rejected, stored, now, pc, req, loc,
          timer, aiRuns, answered, envAI, statusResp, restarts, loaded, explained,
          genIn, genOut, history, lastRowId, inserted, prunes, pruned, wpc, wloc,
          workerResp, seqClient, app, appFetch, appDone>>

\* a step in which neither the Worker nor the D1 database does anything
GatewayIdle ==
  /\ workerResp' = Null
  /\ UNCHANGED <<history, lastRowId, inserted, prunes, pruned, wpc, wloc, seqClient, app, appFetch, appDone>>

(***************************************************************************)
(* getInitialMetrics                                                       *)
(***************************************************************************)
getInitialMetrics ==
  [cloudflare |-> [latency |-> 100, successRate |-> 1000, requestsHandled |-> 0, errors |-> 0],
   origin     |-> [latency |-> 100, successRate |-> 1000, requestsHandled |-> 0, errors |-> 0]]

(***************************************************************************)
(* generateMetrics.  rnd is the sequence of Math.random() draws in the     *)
(* order the selected generator evaluates them; a draw k stands for the    *)
(* number k / RandDen in [0, 1).                                           *)
(***************************************************************************)
RandSamples == {0, 1, RandDen \div 2, RandDen - 1}
NumDraws == 5

\* base + Math.random() * span, as a numerator over RandDen
Affine(base, span, k) == base * RandDen + span * k

Min2(a, b) == IF a < b THEN a ELSE b
Max2(a, b) == IF a > b THEN a ELSE b

\* Math.round(value): the nearest integer, halves rounded up (value >= 0)
roundLatency(num) == (2 * num + RandDen) \div (2 * RandDen)

\* Math.round(Math.max(0, Math.min(100, value)) * 10) / 10, in tenths
roundSuccess(num) ==
  LET clamped == Max2(0, Min2(100 * RandDen, num))
  IN (2 * 10 * clamped + RandDen) \div (2 * RandDen)

\* a broken Math.floor(Math.random() * n): rounds to nearest instead of down
RoundRand(k, n) == (2 * k * n + RandDen) \div (2 * RandDen)

\* Math.floor(Math.random() * n)
FloorRand(k, n) == (k * n) \div RandDen

generators == {"normal", "spike", "ddos"}

generateMetrics(type, rnd) ==
  CASE type = "normal" ->
         [cloudflare |-> [latency |-> roundLatency(Affine(95, 10, rnd[1])),
                          successRate |-> 1000,
                          requestsHandled |-> 10,
                          errors |-> 0],
          origin     |-> [latency |-> roundLatency(Affine(100, 20, rnd[2])),
                          successRate |-> 1000,
                          requestsHandled |-> 10,
                          errors |-> 0]]
    [] type = "spike" ->
         [cloudflare |-> [latency |-> roundLatency(Affine(120, 30, rnd[1])),
                          successRate |-> roundSuccess(Affine(98, 2, rnd[2])),
                          requestsHandled |-> 500,
                          errors |-> FloorRand(rnd[3], 10)],
          origin     |-> [latency |-> roundLatency(Affine(2000, 1000, rnd[4])),
                          successRate |-> roundSuccess(Affine(40, 20, rnd[5])),
                          requestsHandled |-> 300,
                          errors |-> 200]]
    [] type = "ddos" ->
         [cloudflare |-> [latency |-> roundLatency(Affine(150, 50, rnd[1])),
                          successRate |-> roundSuccess(Affine(95, 3, rnd[2])),
                          requestsHandled |-> 10000,
                          errors |-> FloorRand(rnd[3], 500)],
          origin     |-> [latency |-> roundLatency(Affine(5000, 2000, rnd[4])),
                          successRate |-> roundSuccess(Affine(0, 10, rnd[5])),
                          requestsHandled |-> 500,
                          errors |-> 9500]]

Draws == [1..NumDraws -> RandSamples]

(***************************************************************************)
(* generateMetrics in isolation: one call on each scenario and each vector *)
(* of random draws.                                                        *)
(***************************************************************************)
GenerateCall ==
  /\ IsNull(genOut)
  /\ genOut' = Some(generateMetrics(genIn.type, genIn.rnd))
  /\ UNCHANGED <<genIn, currentSimulation, metrics, ready, getFailed, rejected, stored, now,
                 pc, req, loc,
                 timer, aiRuns, answered, envAI, statusResp, restarts, loaded, explained>>
  /\ GatewayIdle

(***************************************************************************)
(* JavaScript values met on the explanation path                           *)
(***************************************************************************)
WS == {" ", "\n", "\t"}

Str(s) == [t |-> "string", v |-> s]
Num(s) == [t |-> "number", v |-> s]
Undefined == [t |-> "undefined", v |-> <<>>]

\* truthiness of a value in a || chain ('' and undefined are falsy)
Truthy(x) == \/ x.t = "string" /\ x.v # <<>>
             \/ x.t = "number" /\ x.v # <<"0">>

OrElse(a, b) == IF Truthy(a) THEN a ELSE b

RECURSIVE TrimStart(_)
TrimStart(s) == IF s # <<>> /\ Head(s) \in WS THEN TrimStart(Tail(s)) ELSE s

RECURSIVE TrimEnd(_)
TrimEnd(s) ==
  IF s # <<>> /\ s[Len(s)] \in WS THEN TrimEnd(SubSeq(s, 1, Len(s) - 1)) ELSE s

\* String.prototype.trim
trim(s) == TrimEnd(TrimStart(s))

\* an aiResult: null, or an object with an optional response and an optional
\* result object holding optional response, output and text
AiResult(response, result) == Some([response |-> response, result |-> result])
AiInner(response, output, text) ==
  Some([response |-> response, output |-> output, text |-> text])

\* aiResult?.response and aiResult?.result?.<field>
Response(aiResult) == IF IsNull(aiResult) THEN Undefined ELSE Val(aiResult).response
ResultResponse(aiResult) ==
  IF IsNull(aiResult) \/ IsNull(Val(aiResult).result)
  THEN Undefined ELSE Val(Val(aiResult).result).response
ResultOutput(aiResult) ==
  IF IsNull(aiResult) \/ IsNull(Val(aiResult).result)
  THEN Undefined ELSE Val(Val(aiResult).result).output
ResultText(aiResult) ==
  IF IsNull(aiResult) \/ IsNull(Val(aiResult).result)
  THEN Undefined ELSE Val(Val(aiResult).result).text

responseText(aiResult) ==
  OrElse(Response(aiResult),
    OrElse(ResultResponse(aiResult),
      OrElse(ResultOutput(aiResult),
        OrElse(ResultText(aiResult), Str(<<>>)))))

trimmed(aiResult) ==
  LET rt == responseText(aiResult)
  IN IF rt.t = "string" THEN trim(rt.v) ELSE <<>>

fallback(type) ==
  CASE type = "normal" ->
         <<"Normal traffic conditions with both systems performing optimally. Cloudflare provides marginal improvements through caching and optimization.">>
    [] type = "spike" ->
         <<"Traffic surge overwhelming unprotected origin while Cloudflare absorbs the load. Clear demonstration of DDoS protection and auto-scaling capabilities.">>
    [] type = "ddos" ->
         <<"Massive DDoS attack completely disabling unprotected origin. Cloudflare successfully mitigating 99.5% of malicious traffic while maintaining service availability.">>

\* what the capability may resolve with
AIResults ==
  { AiResult(Str(<<" ", "Edge absorbed", " ", "the surge.", "\n">>), Null),
    AiResult(Str(<<>>), AiInner(Undefined, Undefined, Str(<<"Origin saturated.">>))),
    AiResult(Str(<<" ", "\n">>), AiInner(Undefined, Undefined, Str(<<"ignored">>))),
    AiResult(Num(<<"42">>), Null),
    Null }

\* how an awaited promise settles: fulfilled with a value or rejected
Fulfilled(x) == [ok |-> TRUE, value |-> x]
Rejected(msg) == [ok |-> FALSE, value |-> <<msg>>]

\* a getAIExplanation that forgets the fallback of its return statement
ExplainReturnedNoFallback(type, aiResult) == Fulfilled(trimmed(aiResult))

\* getAIExplanation when AI.run has resolved: return trimmed || fallback[type]
ExplainReturned(type, aiResult) ==
  Fulfilled(IF trimmed(aiResult) # <<>> THEN trimmed(aiResult) ELSE fallback(type))

\* a getAIExplanation whose catch block rethrows
ExplainCaughtRethrow(type) == Rejected("AI error")

\* getAIExplanation when AI.run has thrown or was aborted: the catch block
ExplainCaught(type) == Fulfilled(fallback(type))

\* getAIExplanation when env.AI is missing or has no run function
ExplainNoBinding(type) == Fulfilled(fallback(type))

(***************************************************************************)
(* Requests and responses of the Durable Object                            *)
(***************************************************************************)
ReqTypes == validTypes \cup {"flood"}

\* the id the Worker would give call c, as a string value
SimId(c) == Str(<<"sim-", c>>)

\* request.json() of call c: null stands for a body that is not JSON; the
\* others carry each scenario with the call's id, an unknown scenario, and a
\* known scenario with an empty or a missing simulationId
Bodies(c) ==
  {Null}
  \cup {Some([type |-> t, simulationId |-> SimId(c)]) : t \in ReqTypes}
  \cup {Some([type |-> "normal", simulationId |-> i]) : i \in {Str(<<>>), Undefined}}

\* the Math.random() draws of the actor's c-th call: one vector, which differs
\* from call to call (every vector is covered by SpecGen)
ActorDraws(c) == {[i \in 1..NumDraws |-> (7 * c) % RandDen]}

NoLocals == [simulation |-> Null, metrics |-> Null, timestamp |-> 0]

\* new Response(JSON.stringify({simulation, metrics, aiExplanation, timestamp}), 200)
Response200(l, text) ==
  [thrown |-> FALSE, status |-> 200, error |-> "", simulation |-> l.simulation,
   metrics |-> l.metrics, aiExplanation |-> text, timestamp |-> l.timestamp]

\* new Response(JSON.stringify({error, message}), {status})
ResponseError(status, error) ==
  [thrown |-> FALSE, status |-> status, error |-> error, simulation |-> Null,
   metrics |-> Null, aiExplanation |-> <<>>, timestamp |-> 0]

\* the promise returned by fetch rejects: the error reaches the caller of stub.fetch
FetchRejected(msg) ==
  [thrown |-> TRUE, status |-> 0, error |-> msg, simulation |-> Null,
   metrics |-> Null, aiExplanation |-> <<>>, timestamp |-> 0]

\* a validation that forgets the scenario
IsValidBodyIdOnly(body) == body.simulationId.t = "string"

\* a validation that forgets the simulationId
IsValidBodyTypeOnly(body) == body.type \in validTypes

\* validTypes.includes(type) && typeof simulationId === 'string'
IsValidBody(body) == body.type \in validTypes /\ body.simulationId.t = "string"

\* a fetch that does not await this.ready
RequestGateOpen == TRUE

\* await this.ready: a request is handled once the constructor's load is over
RequestGate == ready

\* a timer set to twice the budget
TimerDeadlineDouble(t) == t + 2 * AITimeoutMs

\* setTimeout(() => controller.abort(), 5000) started at time t
TimerDeadline(t) == t + AITimeoutMs

NoTimer == [state |-> "none", at |-> 0]

\* a record stamped with the time left of its active window instead of the
\* time it started
NewSimulationCountdown(body, timestamp) ==
  [id |-> body.simulationId, type |-> body.type,
   startTime |-> ActiveWindowMs - timestamp, isActive |-> TRUE]

\* the simulation object built by handleSimulateRequest
NewSimulation(body, timestamp) ==
  [id |-> body.simulationId, type |-> body.type, startTime |-> timestamp, isActive |-> TRUE]

\* the object persistState puts under 'state'
StateBlob(sim, m) == Some([currentSimulation |-> sim, metrics |-> m])

\* a return that reads this.currentSimulation and this.metrics instead of the
\* locals simulation and metrics: the fields as they are when the call
\* returns (for a call that never suspended, as lines 111-113 have just set
\* them)
SimulateReturnFromFields(l, settled) ==
  IF ~settled.ok THEN FetchRejected(Val(settled.value))
  ELSE IF \E c \in Calls : pc[c] = "awaitAI" /\ loc[c] = l
       THEN Response200([simulation |-> currentSimulation, metrics |-> Some(metrics),
                         timestamp |-> l.timestamp], settled.value)
       ELSE Response200([simulation |-> currentSimulation', metrics |-> Some(metrics'),
                         timestamp |-> l.timestamp], settled.value)

\* the return of handleSimulateRequest once getAIExplanation has settled;
\* a rejection of the awaited promise rejects the handler and, through
\* "return this.handleSimulateRequest(request)", the promise of fetch
SimulateReturn(l, settled) ==
  IF settled.ok THEN Response200(l, settled.value)
  ELSE FetchRejected(Val(settled.value))

\* calls are dispatched in the order of their index
Arrives(c) == pc[c] = "idle" /\ (IF c = 1 THEN TRUE ELSE pc[c - 1] # "idle")

(***************************************************************************)
(* The constructor's blockConcurrencyWhile callback.                       *)
(***************************************************************************)
\* stored.currentSimulation ?? null, when something was stored
LoadedSimulation(blob, before) ==
  IF IsNull(blob) THEN before ELSE Val(blob).currentSimulation

\* a load that restores the record and leaves the metrics of line 10
LoadedMetricsInitial(blob, before) == before

\* stored.metrics ?? this.getInitialMetrics(), when something was stored
LoadedMetrics(blob, before) ==
  IF IsNull(blob) THEN before ELSE Val(blob).metrics

Load ==
  /\ ~ready /\ ~getFailed
  /\ loaded' = stored
  /\ currentSimulation' = LoadedSimulation(stored, currentSimulation)
  /\ metrics' = LoadedMetrics(stored, metrics)
  /\ ready' = TRUE
  /\ statusResp' = Null /\ rejected' = Null
  /\ answered' = Null
  /\ explained' = Null
  /\ UNCHANGED <<getFailed, stored, now, pc, req, loc, timer, aiRuns, envAI, restarts,
                 genIn, genOut>>
  /\ GatewayIdle

\* a constructor that catches the failed read and lets this.ready resolve
LoadFailsSwallowed ==
  /\ ~ready /\ ~getFailed
  /\ getFailed' = TRUE
  /\ ready' = TRUE
  /\ statusResp' = Null /\ rejected' = Null
  /\ answered' = Null
  /\ explained' = Null
  /\ UNCHANGED <<currentSimulation, metrics, loaded, stored, now, pc, req, loc, timer,
                 aiRuns, envAI, restarts, genIn, genOut>>
  /\ GatewayIdle

\* storage.get('state') rejects (line 12): the callback throws before lines
\* 13-16, this.ready is a rejected promise and the fields keep the values of
\* lines 9-10
LoadFails ==
  /\ ~ready /\ ~getFailed
  /\ getFailed' = TRUE
  /\ statusResp' = Null /\ rejected' = Null
  /\ answered' = Null
  /\ explained' = Null
  /\ UNCHANGED <<currentSimulation, metrics, ready, loaded, stored, now, pc, req, loc,
                 timer, aiRuns, envAI, restarts, genIn, genOut>>
  /\ GatewayIdle

\* the requests fetch can be given
FetchOps == {"simulate", "status"}

\* fetch on an object whose this.ready is rejected: "await this.ready" (line
\* 26) throws outside the try block and the promise of fetch rejects
FetchGateRejects ==
  /\ getFailed /\ ~RequestGate
  /\ \E op \in FetchOps : rejected' = Some(op)
  /\ statusResp' = Null
  /\ answered' = Null
  /\ explained' = Null
  /\ UNCHANGED <<currentSimulation, metrics, ready, getFailed, loaded, stored, now, pc,
                 req, loc, timer, aiRuns, envAI, restarts, genIn, genOut>>
  /\ GatewayIdle

(***************************************************************************)
(* fetch -> handleSimulateRequest, up to its first suspension on the       *)
(* capability.  The await of storage.put keeps the input gate closed, so   *)
(* nothing is delivered to the object between the assignments of lines     *)
(* 111-113 and the end of persistState.  A call that has answered keeps    *)
(* nothing: its locals are gone and its answer is with the caller.         *)
(***************************************************************************)
\* the record of a simulate call that has answered: the call, the body it
\* carried (null when not JSON), what became of storage.put ("none" when it
\* was not reached, "ok", "failed") and what fetch gave the caller
Answered(c, b, put, response) ==
  Some([call |-> c, body |-> b, put |-> put, response |-> response])

\* the record of a getAIExplanation call that has returned: its caller, its
\* scenario, how AI.run ended ("nobinding" when it was not called), what it
\* resolved with, how the call settled, when it was entered and left, how
\* often AI.run was called and the state its timer was left in
Explained(c, type, outcome, result, settled, since, until, runs, timerState) ==
  Some([call |-> c, type |-> type, outcome |-> outcome, result |-> result,
        settled |-> settled, since |-> since, until |-> until, runs |-> runs,
        timer |-> timerState])

\* call c has answered without suspending: it never held locals or a timer
AnswersAtOnce(c, b, put, response) ==
  /\ answered' = Answered(c, b, put, response)
  /\ pc' = [pc EXCEPT ![c] = "done"]
  /\ UNCHANGED <<req, loc, timer, aiRuns>>

SimulateBadJson(c) ==
  /\ RequestGate /\ Arrives(c)
  /\ AnswersAtOnce(c, Null, "none", ResponseError(400, "Invalid request body"))
  /\ statusResp' = Null /\ rejected' = Null
  /\ explained' = Null
  /\ UNCHANGED <<currentSimulation, metrics, ready, getFailed, stored, now, envAI, restarts,
                 loaded, genIn, genOut>>
  /\ GatewayIdle

SimulateInvalid(c) ==
  /\ RequestGate /\ Arrives(c)
  /\ \E b \in Bodies(c) \ {Null} :
       /\ ~IsValidBody(Val(b))
       /\ AnswersAtOnce(c, b, "none", ResponseError(400, "Invalid type"))
  /\ statusResp' = Null /\ rejected' = Null
  /\ explained' = Null
  /\ UNCHANGED <<currentSimulation, metrics, ready, getFailed, stored, now, envAI, restarts,
                 loaded, genIn, genOut>>
  /\ GatewayIdle

\* lines 102-116 for a body that passed the validation; putOk tells whether
\* storage.put succeeds
SimulateValid(c, b, rnd, putOk) ==
  LET body == Val(b)
      timestamp == now
      simulation == NewSimulation(body, timestamp)
      m == generateMetrics(body.type, rnd)
      l == [simulation |-> Some(simulation), metrics |-> Some(m), timestamp |-> timestamp]
  IN
  /\ IF body.type \notin generators
     THEN \* generators[type] is not a function: thrown before any assignment
          /\ AnswersAtOnce(c, b, "none", FetchRejected("TypeError"))
          /\ explained' = Null
          /\ UNCHANGED <<currentSimulation, metrics, stored>>
     ELSE
       /\ metrics' = m
       /\ currentSimulation' = Some(simulation)
       /\ IF ~putOk
          THEN \* persistState rejects
               /\ AnswersAtOnce(c, b, "failed", FetchRejected("storage"))
               /\ explained' = Null
               /\ UNCHANGED stored
          ELSE
            /\ stored' = StateBlob(Some(simulation), m)
            /\ IF envAI # "present"
               THEN /\ AnswersAtOnce(c, b, "ok",
                                     SimulateReturn(l, ExplainNoBinding(body.type)))
                    /\ explained' = Explained(c, body.type, "nobinding", Null,
                                              ExplainNoBinding(body.type), now, now,
                                              0, "none")
               ELSE /\ req' = [req EXCEPT ![c] = b]
                    /\ loc' = [loc EXCEPT ![c] = l]
                    /\ timer' = [timer EXCEPT ![c] =
                                   [state |-> "armed", at |-> TimerDeadline(now)]]
                    /\ aiRuns' = [aiRuns EXCEPT ![c] = @ + 1]
                    /\ pc' = [pc EXCEPT ![c] = "awaitAI"]
                    /\ answered' = Null
                    /\ explained' = Null
  /\ statusResp' = Null /\ rejected' = Null
  /\ UNCHANGED <<ready, getFailed, now, envAI, restarts, loaded, genIn, genOut>>

SimulatePersisted(c) ==
  /\ RequestGate /\ Arrives(c)
  /\ \E b \in Bodies(c) \ {Null}, rnd \in ActorDraws(c) :
       /\ IsValidBody(Val(b))
       /\ SimulateValid(c, b, rnd, TRUE)
  /\ GatewayIdle

SimulateStorageFails(c) ==
  /\ RequestGate /\ Arrives(c)
  /\ \E b \in Bodies(c) \ {Null}, rnd \in ActorDraws(c) :
       /\ IsValidBody(Val(b))
       /\ SimulateValid(c, b, rnd, FALSE)
  /\ GatewayIdle

(***************************************************************************)
(* getAIExplanation after "await this.env.AI.run(...)" has suspended it.   *)
(* The capability is given the abort signal and is taken to honour it: an  *)
(* aborted run rejects.  getAIExplanation is entered in the step that read *)
(* Date.now() into timestamp.                                              *)
(***************************************************************************)
TypeOf(c) == Val(req[c]).type

\* a handleSimulateRequest that assigns and persists after the explanation
ExplainDonePersists(c, outcome, result, settled, timerState) ==
  /\ answered' = Answered(c, req[c], "ok", SimulateReturn(loc[c], settled))
  /\ explained' = Explained(c, TypeOf(c), outcome, result, settled, loc[c].timestamp,
                            now, aiRuns[c], timerState)
  /\ pc' = [pc EXCEPT ![c] = "done"]
  /\ req' = [req EXCEPT ![c] = Null]
  /\ loc' = [loc EXCEPT ![c] = NoLocals]
  /\ timer' = [timer EXCEPT ![c] = NoTimer]
  /\ aiRuns' = [aiRuns EXCEPT ![c] = 0]
  /\ statusResp' = Null /\ rejected' = Null
  /\ metrics' = Val(loc[c].metrics)
  /\ currentSimulation' = loc[c].simulation
  /\ stored' = StateBlob(loc[c].simulation, Val(loc[c].metrics))
  /\ UNCHANGED <<ready, getFailed, now, envAI, restarts, loaded, genIn, genOut>>

\* a getAIExplanation without the finally block: the timer is left as it is
ExplainDoneTimerLeft(c, outcome, result, settled, timerState) ==
  /\ answered' = Answered(c, req[c], "ok", SimulateReturn(loc[c], settled))
  /\ explained' = Explained(c, TypeOf(c), outcome, result, settled, loc[c].timestamp,
                            now, aiRuns[c], timerState)
  /\ pc' = [pc EXCEPT ![c] = "done"]
  /\ req' = [req EXCEPT ![c] = Null]
  /\ loc' = [loc EXCEPT ![c] = NoLocals]
  /\ aiRuns' = [aiRuns EXCEPT ![c] = 0]
  /\ statusResp' = Null /\ rejected' = Null
  /\ UNCHANGED <<currentSimulation, metrics, ready, getFailed, stored, now, envAI, restarts,
                 loaded, genIn, genOut, timer>>

\* getAIExplanation of call c returns: the finally block has run and
\* handleSimulateRequest answers
ExplainDone(c, outcome, result, settled, timerState) ==
  /\ answered' = Answered(c, req[c], "ok", SimulateReturn(loc[c], settled))
  /\ explained' = Explained(c, TypeOf(c), outcome, result, settled, loc[c].timestamp,
                            now, aiRuns[c], timerState)
  /\ pc' = [pc EXCEPT ![c] = "done"]
  /\ req' = [req EXCEPT ![c] = Null]
  /\ loc' = [loc EXCEPT ![c] = NoLocals]
  /\ timer' = [timer EXCEPT ![c] = NoTimer]
  /\ aiRuns' = [aiRuns EXCEPT ![c] = 0]
  /\ statusResp' = Null /\ rejected' = Null
  /\ UNCHANGED <<currentSimulation, metrics, ready, getFailed, stored, now, envAI, restarts,
                 loaded, genIn, genOut>>

\* AI.run resolves: lines 247-255, then clearTimeout
AIReturn(c) ==
  /\ pc[c] = "awaitAI"
  /\ \E r \in AIResults :
       ExplainDone(c, "returned", r, ExplainReturned(TypeOf(c), r), "cleared")
  /\ GatewayIdle

\* a catch block that calls AI.run again instead of returning the fallback
AIThrowRetries(c) ==
  /\ pc[c] = "awaitAI"
  /\ aiRuns' = [aiRuns EXCEPT ![c] = @ + 1]
  /\ statusResp' = Null /\ rejected' = Null
  /\ answered' = Null
  /\ explained' = Null
  /\ UNCHANGED <<currentSimulation, metrics, ready, getFailed, stored, now, pc, req, loc,
                 timer, envAI, restarts, loaded, genIn, genOut>>
  /\ GatewayIdle

\* AI.run rejects on its own: lines 256-258, then clearTimeout
AIThrow(c) ==
  /\ pc[c] = "awaitAI"
  /\ ExplainDone(c, "threw", Null, ExplainCaught(TypeOf(c)), "cleared")
  /\ GatewayIdle

\* the timer callback of line 238 runs: controller.abort() rejects the run,
\* the catch block returns the fallback
TimerFire(c) ==
  /\ pc[c] = "awaitAI"
  /\ timer[c].state = "armed"
  /\ now >= timer[c].at
  /\ ExplainDone(c, "aborted", Null, ExplainCaught(TypeOf(c)), "fired")
  /\ GatewayIdle

(***************************************************************************)
(* fetch -> handleStatusRequest                                            *)
(***************************************************************************)
\* a status that reports the isActive stored with the record
WithIsActiveStored(sim, t) == sim

\* {...this.currentSimulation, isActive: now - (startTime || 0) < 30 * 1000}
WithIsActive(sim, t) ==
  IF IsNull(sim) THEN Null
  ELSE Some([Val(sim) EXCEPT !.isActive = t - Val(sim).startTime < ActiveWindowMs])

\* the payload of handleStatusRequest on the state (sim, m) at time t
StatusPayload(sim, m, t) ==
  [simulation |-> WithIsActive(sim, t), metrics |-> m, timestamp |-> t]

\* a status that is held back while a simulate call is suspended
StatusWaits ==
  /\ RequestGate
  /\ \A c \in Calls : pc[c] # "awaitAI"
  /\ statusResp' = Some(StatusPayload(currentSimulation, metrics, now))
  /\ rejected' = Null
  /\ answered' = Null
  /\ explained' = Null
  /\ UNCHANGED <<currentSimulation, metrics, ready, getFailed, stored, now, pc, req, loc, timer,
                 aiRuns, envAI, restarts, loaded, genIn, genOut>>
  /\ GatewayIdle

\* a status that assigns the recomputed record to this.currentSimulation
StatusWritesBack ==
  /\ RequestGate
  /\ statusResp' = Some(StatusPayload(currentSimulation, metrics, now))
  /\ rejected' = Null
  /\ currentSimulation' = WithIsActive(currentSimulation, now)
  /\ answered' = Null
  /\ explained' = Null
  /\ UNCHANGED <<metrics, ready, getFailed, stored, now, pc, req, loc, timer,
                 aiRuns, envAI, restarts, loaded, genIn, genOut>>
  /\ GatewayIdle

Status ==
  /\ RequestGate
  /\ statusResp' = Some(StatusPayload(currentSimulation, metrics, now))
  /\ rejected' = Null
  /\ answered' = Null
  /\ explained' = Null
  /\ UNCHANGED <<currentSimulation, metrics, ready, getFailed, stored, now, pc, req, loc, timer,
                 aiRuns, envAI, restarts, loaded, genIn, genOut>>
  /\ GatewayIdle

(***************************************************************************)
(* The environment: time passes, the object is evicted and re-created.     *)
(***************************************************************************)
ArmedAt == {timer[c].at : c \in {d \in Calls : timer[d].state = "armed"}}

RECURSIVE MinOf(_)
MinOf(S) ==
  LET x == CHOOSE y \in S : TRUE
  IN IF S = {x} THEN x ELSE Min2(x, MinOf(S \ {x}))

\* Date.now() advances; a timer that is due runs before time moves past it
Tick ==
  /\ now < MaxNow
  /\ \A d \in ArmedAt : now < d
  /\ now' = MinOf({now + TickMs, MaxNow} \cup ArmedAt)
  /\ statusResp' = Null /\ rejected' = Null
  /\ answered' = Null
  /\ explained' = Null
  /\ UNCHANGED <<currentSimulation, metrics, ready, getFailed, stored, pc, req, loc, timer,
                 aiRuns, envAI, restarts, loaded, genIn, genOut>>
  /\ GatewayIdle

\* the idle object, or the object whose constructor failed, is dropped from
\* memory and constructed again (lines 6-18): the fields get the constructor's
\* values, the blob stays
Restart ==
  /\ restarts < MaxRestarts
  /\ (ready \/ getFailed)
  /\ \A c \in Calls : pc[c] # "awaitAI"
  /\ currentSimulation' = Null
  /\ metrics' = getInitialMetrics
  /\ ready' = FALSE
  /\ getFailed' = FALSE
  /\ loaded' = Null
  /\ statusResp' = Null /\ rejected' = Null
  /\ answered' = Null
  /\ explained' = Null
  /\ restarts' = restarts + 1
  /\ UNCHANGED <<stored, now, pc, req, loc, timer, aiRuns, envAI, genIn, genOut>>
  /\ GatewayIdle

(***************************************************************************)
(* The D1 table simulation_metrics and the two statements run on it other  *)
(* than the INSERT.  ORDER BY timestamp leaves the order of rows with      *)
(* equal timestamps open: every order is an outcome.                       *)
(***************************************************************************)
HistoryCap == 500
RecentLimit == 5

\* The requests the Worker serves at /api/simulate
Requests == 1..NumRequests

\* a bind with simulationId and type in each other's place ("sim-" stands for
\* the text of the id)
HistoryRowSwapped(id, simulationId, type, payload) ==
  [id |-> id,
   simulation_id |-> Str(<<type>>),
   timestamp |-> payload.timestamp,
   simulation_type |-> "sim-",
   cf_latency_ms |-> Val(payload.metrics).cloudflare.latency,
   cf_success_rate |-> Val(payload.metrics).cloudflare.successRate,
   cf_requests_handled |-> Val(payload.metrics).cloudflare.requestsHandled,
   cf_errors |-> Val(payload.metrics).cloudflare.errors,
   origin_latency_ms |-> Val(payload.metrics).origin.latency,
   origin_success_rate |-> Val(payload.metrics).origin.successRate,
   origin_requests_handled |-> Val(payload.metrics).origin.requestsHandled,
   origin_errors |-> Val(payload.metrics).origin.errors,
   ai_explanation |-> payload.aiExplanation]

\* the row bound by handleSimulate from the Durable Object's payload
HistoryRow(id, simulationId, type, payload) ==
  [id |-> id,
   simulation_id |-> simulationId,
   timestamp |-> payload.timestamp,
   simulation_type |-> type,
   cf_latency_ms |-> Val(payload.metrics).cloudflare.latency,
   cf_success_rate |-> Val(payload.metrics).cloudflare.successRate,
   cf_requests_handled |-> Val(payload.metrics).cloudflare.requestsHandled,
   cf_errors |-> Val(payload.metrics).cloudflare.errors,
   origin_latency_ms |-> Val(payload.metrics).origin.latency,
   origin_success_rate |-> Val(payload.metrics).origin.successRate,
   origin_requests_handled |-> Val(payload.metrics).origin.requestsHandled,
   origin_errors |-> Val(payload.metrics).origin.errors,
   ai_explanation |-> payload.aiExplanation]

RowSet(rows) == {rows[i] : i \in 1..Len(rows)}

\* the rows of the table with timestamp t
WithTimestamp(rows, t) == {rows[i] : i \in {j \in 1..Len(rows) : rows[j].timestamp = t}}

\* the timestamps found in the table
TimestampsOf(rows) == {rows[i].timestamp : i \in 1..Len(rows)}

LeastOf(S) == CHOOSE m \in S : \A u \in S : m <= u

GreatestOf(S) == 0 - LeastOf({0 - t : t \in S})

SubsetsOfSize(S, k) == {T \in SUBSET S : Cardinality(T) = k}

RECURSIVE PermSeqs(_)
PermSeqs(S) ==
  IF S = {} THEN {<<>>}
  ELSE UNION {{<<x>> \o p : p \in PermSeqs(S \ {x})} : x \in S}

\* SELECT ... ORDER BY timestamp DESC LIMIT k over the rows whose timestamp
\* is in ts: every sequence the statement can return
RECURSIVE OrderByTimestampDescLimit(_, _, _)
OrderByTimestampDescLimit(rows, k, ts) ==
  IF k = 0 \/ ts = {} THEN {<<>>}
  ELSE LET m == GreatestOf(ts)
           C == WithTimestamp(rows, m)
       IN IF Cardinality(C) <= k
          THEN {p \o q : p \in PermSeqs(C),
                         q \in OrderByTimestampDescLimit(rows, k - Cardinality(C),
                                                         ts \ {m})}
          ELSE UNION {PermSeqs(T) : T \in SubsetsOfSize(C, k)}

\* the sets of k rows that come last in some ORDER BY timestamp DESC, among
\* the rows whose timestamp is in ts
RECURSIVE OldestSets(_, _, _)
OldestSets(rows, k, ts) ==
  IF k = 0 \/ ts = {} THEN {{}}
  ELSE LET m == LeastOf(ts)
           C == WithTimestamp(rows, m)
       IN IF Cardinality(C) <= k
          THEN {C \cup B : B \in OldestSets(rows, k - Cardinality(C), ts \ {m})}
          ELSE SubsetsOfSize(C, k)

\* a subquery with the LIMIT of handleGetMetrics
KeptByLimitRecent(rows) ==
  {{q[i] : i \in 1..Len(q)} :
     q \in OrderByTimestampDescLimit(rows, RecentLimit, TimestampsOf(rows))}

\* a subquery without the LIMIT
KeptByLimitAll(rows) == {RowSet(rows)}

\* SELECT id FROM simulation_metrics ORDER BY timestamp DESC LIMIT 500: the
\* sets of rows the subquery can name (all rows but the Len - 500 that come
\* last in the order)
KeptByLimit(rows) ==
  IF Len(rows) <= HistoryCap THEN {RowSet(rows)}
  ELSE {RowSet(rows) \ B : B \in OldestSets(rows, Len(rows) - HistoryCap, TimestampsOf(rows))}

\* DELETE FROM simulation_metrics WHERE id NOT IN (kept)
DeleteNotIn(rows, kept) == SelectSeq(rows, LAMBDA r : r \in kept)

\* Math.round(Number.parseFloat(value ?? 0) * 10) / 10 of a rate kept in
\* tenths: the tenths rounded to a whole number
toOneDecimal(tenths) == (2 * tenths + 1) \div 2

\* results.map(row => ({...row, cf_success_rate: ..., origin_success_rate: ...}))
Formatted(row) ==
  [row EXCEPT !.cf_success_rate = toOneDecimal(@),
              !.origin_success_rate = toOneDecimal(@)]

(***************************************************************************)
(* The Worker: jsonResponse, fetch, handleSimulate.                        *)
(***************************************************************************)
\* request.json() in handleSimulate: a body that is not JSON, the JSON value
\* null, or an object with the scenario type ("flood" stands for every value
\* outside validTypes, a missing type included)
WorkerBodies ==
  {[json |-> "invalid", type |-> ""], [json |-> "null", type |-> ""]}
  \cup {[json |-> "object", type |-> t] : t \in ReqTypes}

\* the data of an error response
ErrorData(error) ==
  [error |-> error, simulationId |-> Null, type |-> "", metrics |-> Null,
   aiExplanation |-> <<>>, timestamp |-> Null, rows |-> <<>>]

\* {simulationId, type, metrics, aiExplanation, timestamp} of lines 435-441
SimulateData(l) ==
  [error |-> "", simulationId |-> Some(l.simulationId), type |-> l.type,
   metrics |-> Val(l.doResponse).metrics,
   aiExplanation |-> Val(l.doResponse).aiExplanation,
   timestamp |-> Some(Val(l.doResponse).timestamp), rows |-> <<>>]

\* {metrics: formatted} of handleGetMetrics
MetricsData(rows) ==
  [error |-> "", simulationId |-> Null, type |-> "", metrics |-> Null,
   aiExplanation |-> <<>>, timestamp |-> Null,
   rows |-> [i \in 1..Len(rows) |-> Formatted(rows[i])]]

\* {simulation, metrics, timestamp} of handleStatusRequest, passed on by
\* handleGetStatus
StatusData(payload) ==
  [error |-> "", status |-> payload, timestamp |-> Some(payload.timestamp)]

\* the headers of a response: a set of name and value pairs
corsHeaders ==
  {<<"Access-Control-Allow-Origin", "*">>,
   <<"Access-Control-Allow-Methods", "GET, POST, OPTIONS">>,
   <<"Access-Control-Allow-Headers", "Content-Type">>}

\* a jsonResponse that sends the content type alone
jsonResponsePlain(data, status) ==
  [status |-> status,
   data |-> IF status >= 400 \/ ~IsNull(data.timestamp) THEN data
            ELSE [data EXCEPT !.timestamp = Some(now)],
   headers |-> {<<"Content-Type", "application/json">>}]

\* jsonResponse(data, status): an error, or data that has a timestamp, is sent
\* as it is; other data gets timestamp: Date.now()
jsonResponse(data, status) ==
  [status |-> status,
   data |-> IF status >= 400 \/ ~IsNull(data.timestamp) THEN data
            ELSE [data EXCEPT !.timestamp = Some(now)],
   headers |-> {<<"Content-Type", "application/json">>} \cup corsHeaders]

\* new Response(null, {status: 204, headers: corsHeaders})
PreflightResponse ==
  [status |-> 204, data |-> ErrorData(""), headers |-> corsHeaders]

\* doResponse.ok
DoResponseOk(r) == ~r.thrown /\ r.status >= 200 /\ r.status <= 299

NoWorkerLocals == [type |-> "", simulationId |-> Str(<<>>), call |-> 0, doResponse |-> Null]

\* the record of a Worker request that has been answered: the request, its
\* route, the body it carried, what stub.fetch gave (null when the object was
\* not called), what became of the INSERT ("none" when it was not reached) and
\* the response
WorkerAnswered(w, route, body, doResponse, insert, response) ==
  Some([request |-> w, route |-> route, body |-> body, doResponse |-> doResponse,
        insert |-> insert, response |-> response])

\* a step of the Worker in which the Durable Object does nothing
ActorIdle ==
  /\ statusResp' = Null /\ rejected' = Null
  /\ answered' = Null
  /\ explained' = Null
  /\ UNCHANGED <<currentSimulation, metrics, ready, getFailed, stored, now, pc, req, loc, timer,
                 aiRuns, envAI, restarts, loaded, genIn, genOut>>

\* requests are dispatched in the order of their index
WorkerArrives(w) == wpc[w] = "idle" /\ (IF w = 1 THEN TRUE ELSE wpc[w - 1] # "idle")

\* request w is answered before the Durable Object is called
WorkerRejects(w, body, response) ==
  /\ workerResp' = WorkerAnswered(w, "simulate", body, Null, "none", response)
  /\ wpc' = [wpc EXCEPT ![w] = "done"]
  /\ ActorIdle
  /\ UNCHANGED <<history, lastRowId, inserted, prunes, pruned, wloc, seqClient, app, appFetch, appDone>>

\* a catch block that answers 200
WorkerFetchCaughtOk == jsonResponse(ErrorData("Internal Server Error"), 200)

\* the catch block of the Worker's fetch
WorkerFetchCaught == jsonResponse(ErrorData("Internal Server Error"), 500)

\* lines 344-352: request.json() rejects
WorkerBadJson(w) ==
  /\ WorkerArrives(w)
  /\ \E body \in WorkerBodies :
       /\ body.json = "invalid"
       /\ WorkerRejects(w, body, jsonResponse(ErrorData("Invalid request body"), 400))

\* line 354: "const { type } = body" throws a TypeError on null, which leaves
\* handleSimulate and is caught by fetch
WorkerNullBody(w) ==
  /\ WorkerArrives(w)
  /\ \E body \in WorkerBodies :
       /\ body.json = "null"
       /\ WorkerRejects(w, body, WorkerFetchCaught)

\* lines 355-363
WorkerInvalidType(w) ==
  /\ WorkerArrives(w)
  /\ \E body \in WorkerBodies :
       /\ body.json = "object"
       /\ body.type \notin validTypes
       /\ WorkerRejects(w, body, jsonResponse(ErrorData("Invalid type"), 400))

\* lines 365-372: stub.fetch delivers {type, simulationId} to the Durable
\* Object, which runs handleSimulateRequest up to its answer or its first
\* suspension; handleSimulate resumes in a later step
WorkerCallsActor(w, c, type, rnd, putOk) ==
  LET b == Some([type |-> type, simulationId |-> SimId(w)]) IN
  /\ IsValidBody(Val(b))
  /\ SimulateValid(c, b, rnd, putOk)
  /\ wloc' = [wloc EXCEPT ![w] =
                [type |-> type, simulationId |-> SimId(w), call |-> c,
                 doResponse |-> IF pc'[c] = "done"
                                THEN Some(Val(answered').response) ELSE Null]]
  /\ wpc' = [wpc EXCEPT ![w] = IF pc'[c] = "done" THEN "gotDO" ELSE "awaitDO"]
  /\ workerResp' = Null
  /\ UNCHANGED <<history, lastRowId, inserted, prunes, pruned, seqClient, app, appFetch, appDone>>

\* the put of persistState succeeds
WorkerSimulatePersisted(w) ==
  /\ WorkerArrives(w)
  /\ RequestGate
  /\ \E body \in WorkerBodies, c \in Calls :
       /\ body.json = "object"
       /\ body.type \in validTypes
       /\ Arrives(c)
       /\ \E rnd \in ActorDraws(c) : WorkerCallsActor(w, c, body.type, rnd, TRUE)

\* the put of persistState rejects
WorkerSimulateStorageFails(w) ==
  /\ WorkerArrives(w)
  /\ RequestGate
  /\ \E body \in WorkerBodies, c \in Calls :
       /\ body.json = "object"
       /\ body.type \in validTypes
       /\ Arrives(c)
       /\ \E rnd \in ActorDraws(c) : WorkerCallsActor(w, c, body.type, rnd, FALSE)

\* the Durable Object answers the suspended call of request w
WorkerGetsAnswer(w) ==
  /\ wloc' = [wloc EXCEPT ![w].doResponse = Some(Val(answered').response)]
  /\ wpc' = [wpc EXCEPT ![w] = "gotDO"]
  /\ workerResp' = Null
  /\ UNCHANGED <<history, lastRowId, inserted, prunes, pruned, seqClient, app, appFetch, appDone>>

\* what AI.run resolves with in the runs of the Worker: a text, or nothing
WorkerAIResults == {r \in AIResults : IsNull(r) \/ (Truthy(Response(r)) /\ trimmed(r) # <<>>)}

WorkerAIReturn(w) ==
  /\ wpc[w] = "awaitDO"
  /\ \E r \in WorkerAIResults :
       ExplainDone(wloc[w].call, "returned", r,
                   ExplainReturned(TypeOf(wloc[w].call), r), "cleared")
  /\ WorkerGetsAnswer(w)

WorkerAIThrow(w) ==
  /\ wpc[w] = "awaitDO"
  /\ ExplainDone(wloc[w].call, "threw", Null, ExplainCaught(TypeOf(wloc[w].call)), "cleared")
  /\ WorkerGetsAnswer(w)

WorkerTimerFire(w) ==
  /\ wpc[w] = "awaitDO"
  /\ timer[wloc[w].call].state = "armed"
  /\ now >= timer[wloc[w].call].at
  /\ ExplainDone(wloc[w].call, "aborted", Null, ExplainCaught(TypeOf(wloc[w].call)), "fired")
  /\ WorkerGetsAnswer(w)

\* request w is answered after stub.fetch has settled
WorkerAnswers(w, insert, response) ==
  /\ workerResp' = WorkerAnswered(w, "simulate",
                                  [json |-> "object", type |-> wloc[w].type],
                                  wloc[w].doResponse, insert, response)
  /\ wpc' = [wpc EXCEPT ![w] = "done"]
  /\ wloc' = [wloc EXCEPT ![w] = NoWorkerLocals]
  /\ ActorIdle

\* stub.fetch rejected (the error is caught by the Worker's fetch), or lines
\* 374-383 on a response that is not ok
WorkerActorFailed(w) ==
  /\ wpc[w] = "gotDO"
  /\ ~DoResponseOk(Val(wloc[w].doResponse))
  /\ WorkerAnswers(w, "none",
                   IF Val(wloc[w].doResponse).thrown THEN WorkerFetchCaught
                   ELSE jsonResponse(ErrorData("Simulation failed"),
                                     Val(wloc[w].doResponse).status))
  /\ UNCHANGED <<history, lastRowId, inserted, prunes, pruned, seqClient, app, appFetch, appDone>>

\* a catch block that logs the failed INSERT and goes on to line 435
InsertFailureIgnored(l) == jsonResponse(SimulateData(l), 200)

\* lines 424-433
InsertFailureResponse(l) == jsonResponse(ErrorData("Database error"), 500)

\* lines 435-441
StoredResponse(l) == jsonResponse(SimulateData(l), 200)

\* lines 385-423 and 435-441: the INSERT succeeds, limitStoredMetrics is
\* handed to ctx.waitUntil and the response is returned
WorkerStores(w) ==
  /\ wpc[w] = "gotDO"
  /\ DoResponseOk(Val(wloc[w].doResponse))
  /\ history' = Append(history, HistoryRow(lastRowId + 1, wloc[w].simulationId,
                                           wloc[w].type, Val(wloc[w].doResponse)))
  /\ lastRowId' = lastRowId + 1
  /\ inserted' = Append(inserted, Val(wloc[w].doResponse).timestamp)
  /\ prunes' = prunes + 1
  /\ WorkerAnswers(w, "ok", StoredResponse(wloc[w]))
  /\ UNCHANGED <<pruned, seqClient, app, appFetch, appDone>>

\* lines 385-433: the INSERT fails
WorkerInsertFails(w) ==
  /\ wpc[w] = "gotDO"
  /\ DoResponseOk(Val(wloc[w].doResponse))
  /\ WorkerAnswers(w, "failed", InsertFailureResponse(wloc[w]))
  /\ UNCHANGED <<history, lastRowId, inserted, prunes, pruned, seqClient, app, appFetch, appDone>>

(***************************************************************************)
(* The other routes of the Worker's fetch, and the requests that meet a     *)
(* Durable Object whose constructor failed.                                 *)
(***************************************************************************)
\* a request that is answered by fetch itself touches neither the Durable
\* Object nor the table
RoutedByFetch ==
  /\ ActorIdle
  /\ UNCHANGED <<history, lastRowId, inserted, prunes, pruned, wpc, wloc, seqClient, app, appFetch, appDone>>

\* lines 305-307: the OPTIONS preflight, on any path
WorkerOptions ==
  /\ workerResp' = WorkerAnswered(0, "options", [json |-> "none", type |-> ""], Null,
                                  "none", PreflightResponse)
  /\ RoutedByFetch

\* a router without the method check: the request goes on to handleSimulate
\* (here with a body naming a known scenario, and with nothing else running)
WorkerMethodNotChecked ==
  /\ RequestGate
  /\ \E rnd \in ActorDraws(1) :
       LET type == "normal"
           sim == Some(NewSimulation([type |-> type, simulationId |-> SimId(0)], now))
           m == generateMetrics(type, rnd)
           l == [type |-> type, simulationId |-> SimId(0), call |-> 0,
                 doResponse |-> Some(Response200(
                    [simulation |-> sim, metrics |-> Some(m), timestamp |-> now],
                    ExplainNoBinding(type).value))]
       IN
       /\ metrics' = m
       /\ currentSimulation' = sim
       /\ stored' = StateBlob(sim, m)
       /\ history' = Append(history, HistoryRow(lastRowId + 1, l.simulationId, type,
                                                Val(l.doResponse)))
       /\ lastRowId' = lastRowId + 1
       /\ inserted' = Append(inserted, now)
       /\ prunes' = prunes + 1
       /\ workerResp' = WorkerAnswered(0, "notPost", [json |-> "object", type |-> type],
                                       l.doResponse, "ok", StoredResponse(l))
  /\ statusResp' = Null /\ rejected' = Null
  /\ answered' = Null
  /\ explained' = Null
  /\ UNCHANGED <<ready, getFailed, now, pc, req, loc, timer, aiRuns, envAI, restarts, loaded,
                 genIn, genOut, pruned, wpc, wloc, seqClient, app, appFetch, appDone>>

\* lines 310-316: /api/simulate with a method other than POST
WorkerMethodNotAllowed ==
  /\ workerResp' = WorkerAnswered(0, "notPost", [json |-> "none", type |-> ""], Null,
                                  "none", jsonResponse(ErrorData("Method not allowed"), 405))
  /\ RoutedByFetch

\* lines 328-331: any other path
WorkerNotFound ==
  /\ workerResp' = WorkerAnswered(0, "other", [json |-> "none", type |-> ""], Null,
                                  "none", jsonResponse(ErrorData("Not found"), 404))
  /\ RoutedByFetch

\* the Response of handleStatusRequest, as stub.fetch gives it to the Worker
StatusResponse(payload) == [thrown |-> FALSE, status |-> 200, payload |-> payload]

\* handleGetStatus: the Durable Object answers the status request (lines
\* 132-154) and the Worker passes the payload on, or relays a response that is
\* not ok
handleGetStatus ==
  /\ RequestGate
  /\ LET response == StatusResponse(StatusPayload(currentSimulation, metrics, now)) IN
     /\ statusResp' = Some(response.payload)
     /\ workerResp' = WorkerAnswered(0, "status", [json |-> "none", type |-> ""],
                                     Some(response), "none",
                                     IF DoResponseOk(response)
                                     THEN jsonResponse(StatusData(response.payload), 200)
                                     ELSE jsonResponse(ErrorData("Status unavailable"),
                                                       response.status))
  /\ rejected' = Null
  /\ answered' = Null
  /\ explained' = Null
  /\ UNCHANGED <<currentSimulation, metrics, ready, getFailed, stored, now, pc, req, loc,
                 timer, aiRuns, envAI, restarts, loaded, genIn, genOut>>
  /\ UNCHANGED <<history, lastRowId, inserted, prunes, pruned, wpc, wloc, seqClient, app, appFetch, appDone>>

\* a request for which stub.fetch rejects at "await this.ready"
GateRejects(op) ==
  /\ getFailed /\ ~RequestGate
  /\ rejected' = Some(op)
  /\ statusResp' = Null
  /\ answered' = Null
  /\ explained' = Null
  /\ UNCHANGED <<currentSimulation, metrics, ready, getFailed, stored, now, pc, req, loc,
                 timer, aiRuns, envAI, restarts, loaded, genIn, genOut>>

\* handleGetStatus when stub.fetch rejects: the error leaves handleGetStatus
\* and is caught by fetch
handleGetStatusRejected ==
  /\ GateRejects("status")
  /\ workerResp' = WorkerAnswered(0, "status", [json |-> "none", type |-> ""],
                                  Some(FetchRejected("storage")), "none", WorkerFetchCaught)
  /\ UNCHANGED <<history, lastRowId, inserted, prunes, pruned, wpc, wloc, seqClient, app, appFetch, appDone>>

\* handleSimulate when stub.fetch rejects at once: it resumes with the
\* rejection in a later step
WorkerSimulateGateRejects(w) ==
  /\ WorkerArrives(w)
  /\ GateRejects("simulate")
  /\ \E body \in WorkerBodies :
       /\ body.json = "object"
       /\ body.type \in validTypes
       /\ wloc' = [wloc EXCEPT ![w] =
                     [type |-> body.type, simulationId |-> SimId(w), call |-> 0,
                      doResponse |-> Some(FetchRejected("storage"))]]
  /\ wpc' = [wpc EXCEPT ![w] = "gotDO"]
  /\ workerResp' = Null
  /\ UNCHANGED <<history, lastRowId, inserted, prunes, pruned, seqClient, app, appFetch, appDone>>

(***************************************************************************)
(* limitStoredMetrics, run by the runtime after ctx.waitUntil              *)
(***************************************************************************)
\* a prune whose failure is sent to a caller
limitStoredMetricsSurfaces ==
  /\ prunes > 0
  /\ prunes' = prunes - 1
  /\ pruned' = "failed"
  /\ workerResp' = WorkerAnswered(0, "simulate", [json |-> "object", type |-> ""], Null,
                                  "ok", jsonResponse(ErrorData("Database error"), 500))
  /\ ActorIdle
  /\ UNCHANGED <<history, lastRowId, inserted, wpc, wloc, seqClient, app, appFetch, appDone>>

\* the DELETE fails: the error is logged (lines 522-524)
limitStoredMetricsFails ==
  /\ prunes > 0
  /\ prunes' = prunes - 1
  /\ pruned' = "failed"
  /\ workerResp' = Null
  /\ ActorIdle
  /\ UNCHANGED <<history, lastRowId, inserted, wpc, wloc, seqClient, app, appFetch, appDone>>

\* a DELETE that removes the single oldest row of a table above the cap
limitStoredMetricsOne ==
  /\ prunes > 0
  /\ \E B \in OldestSets(history, IF Len(history) > HistoryCap THEN 1 ELSE 0,
                          TimestampsOf(history)) :
       history' = DeleteNotIn(history, RowSet(history) \ B)
  /\ prunes' = prunes - 1
  /\ pruned' = "ok"
  /\ workerResp' = Null
  /\ ActorIdle
  /\ UNCHANGED <<lastRowId, inserted, wpc, wloc, seqClient, app, appFetch, appDone>>

\* the DELETE succeeds
limitStoredMetrics ==
  /\ prunes > 0
  /\ \E kept \in KeptByLimit(history) : history' = DeleteNotIn(history, kept)
  /\ prunes' = prunes - 1
  /\ pruned' = "ok"
  /\ workerResp' = Null
  /\ ActorIdle
  /\ UNCHANGED <<lastRowId, inserted, wpc, wloc, seqClient, app, appFetch, appDone>>

(***************************************************************************)
(* handleGetMetrics                                                        *)
(***************************************************************************)
\* a query without the LIMIT
RecentRowsUnlimited(rows) == OrderByTimestampDescLimit(rows, Len(rows), TimestampsOf(rows))

\* SELECT ... FROM simulation_metrics ORDER BY timestamp DESC LIMIT 5
RecentRows(rows) == OrderByTimestampDescLimit(rows, RecentLimit, TimestampsOf(rows))

handleGetMetrics ==
  /\ \E q \in RecentRows(history) :
       workerResp' = WorkerAnswered(0, "metrics", [json |-> "none", type |-> ""], Null,
                                    "none", jsonResponse(MetricsData(q), 200))
  /\ ActorIdle
  /\ UNCHANGED <<history, lastRowId, inserted, prunes, pruned, wpc, wloc, seqClient, app, appFetch, appDone>>

\* the SELECT fails (lines 478-487)
handleGetMetricsFails ==
  /\ workerResp' = WorkerAnswered(0, "metrics", [json |-> "none", type |-> ""], Null,
                                  "none", jsonResponse(ErrorData("Database error"), 500))
  /\ ActorIdle
  /\ UNCHANGED <<history, lastRowId, inserted, prunes, pruned, wpc, wloc, seqClient, app, appFetch, appDone>>

(***************************************************************************)
(* A client that sends create-simulation requests one after the other,     *)
(* each after the previous request's prune has run.  No binding env.AI;    *)
(* the clock advances by one millisecond every period-th request.          *)
(***************************************************************************)
TypeCycle == <<"normal", "spike", "ddos">>

ClockPeriods == 1..MaxClockPeriod

\* handleSimulate from line 342 to line 441 with nothing else running:
\* handleSimulateRequest answers 200 with the canned text, the INSERT
\* succeeds
SequentialRequest ==
  /\ seqClient.n < seqClient.total
  /\ prunes = 0
  /\ RequestGate
  /\ \E rnd \in ActorDraws(seqClient.n + 1) :
       LET n == seqClient.n + 1
           type == TypeCycle[(n % 3) + 1]
           body == [type |-> type, simulationId |-> SimId(n)]
           m == generateMetrics(type, rnd)
           sim == Some(NewSimulation(body, now))
           l == [type |-> type, simulationId |-> SimId(n), call |-> 0,
                 doResponse |-> Some(SimulateReturn(
                    [simulation |-> sim, metrics |-> Some(m), timestamp |-> now],
                    ExplainNoBinding(type)))]
       IN
       /\ IsValidBody(body)
       /\ metrics' = m
       /\ currentSimulation' = sim
       /\ stored' = StateBlob(sim, m)
       /\ history' = Append(history, HistoryRow(lastRowId + 1, l.simulationId, type,
                                                Val(l.doResponse)))
       /\ lastRowId' = lastRowId + 1
       /\ inserted' = Append(inserted, now)
       /\ prunes' = prunes + 1
       /\ workerResp' = WorkerAnswered(0, "simulate", [json |-> "object", type |-> type],
                                       l.doResponse, "ok", StoredResponse(l))
       /\ now' = now + (IF n % seqClient.period = 0 THEN 1 ELSE 0)
       /\ seqClient' = [seqClient EXCEPT !.n = n]
  /\ statusResp' = Null /\ rejected' = Null
  /\ answered' = Null
  /\ explained' = Null
  /\ UNCHANGED <<ready, getFailed, pc, req, loc, timer, aiRuns, envAI, restarts, loaded, genIn,
                 genOut, pruned, wpc, wloc, app, appFetch, appDone>>

(***************************************************************************)
(* The dashboard: the App component of src/unnamed/part_001.  A record of  *)
(* the metrics list is stood for by its simulation_id.  A fetch in flight  *)
(* completes in one step with what the server made of it: an ok response,  *)
(* a response that is not ok, or a rejection.                              *)
(***************************************************************************)
PollMs == 2000
MetricsShown == 10

\* the buttons of the controls section
simulationButtons == {"normal", "spike", "ddos"}

\* everything but the dashboard stays as it is
ServerIdle ==
  UNCHANGED <<currentSimulation, metrics, ready, getFailed, rejected, stored, now, pc, req,
              loc, timer, aiRuns, answered, envAI, statusResp, restarts, loaded, explained,
              genIn, genOut, history, lastRowId, inserted, prunes, pruned, wpc, wloc,
              workerResp, seqClient>>

\* the useState values of lines 111-115, and the effect of lines 182-184 has
\* sent the first fetchMetrics and fetchStatus
InitApp ==
  /\ app = [metrics |-> <<>>, currentStatus |-> Null, loading |-> FALSE, error |-> Null,
            aiExplanation |-> Str(<<>>)]
  /\ appFetch = [simulate |-> <<>>, metrics |-> 1, status |-> 1, sinceFire |-> 0]
  /\ appDone = Null

\* the sequence s without its i-th element
Without(s, i) == SubSeq(s, 1, i - 1) \o SubSeq(s, i + 1, Len(s))

\* Array.prototype.slice(0, n)
Slice0(s, n) == SubSeq(s, 1, Min2(Len(s), n))

\* the body of a 200 response to POST /api/simulate for the scenario type
AppPayloads(type) ==
  {[simulationId |-> SimId(3), type |-> type, aiExplanation |-> text, timestamp |-> PollMs] :
     text \in {Str(fallback(type)), Undefined}}

\* the ways POST /api/simulate fails: fetch or response.json() rejects with an
\* error that carries a message or none, or the response is not ok and its
\* body carries a message or none
AppSimulateFailures ==
  {[kind |-> "throws", message |-> Str(<<"Failed to fetch">>)],
   [kind |-> "throws", message |-> Str(<<>>)],
   [kind |-> "status", message |-> Str(<<"Could not store metrics in D1">>)],
   [kind |-> "status", message |-> Undefined]}

\* data.metrics of a response to GET /api/metrics
AppMetricsLists == {Undefined, Str(<<SimId(2), SimId(1)>>)}

\* data.simulation of a response to GET /api/status
AppStatusSimulations ==
  {Null, WithIsActive(Some(NewSimulation([type |-> "spike", simulationId |-> SimId(1)], 0)),
                      PollMs)}

\* the message of the error caught at line 172: the error thrown at line 159
\* for a response that is not ok, or the error fetch or json() rejected with
CaughtMessage(failure) ==
  IF failure.kind = "status"
  THEN OrElse(failure.message, Str(<<"Simulation failed">>))
  ELSE failure.message

\* onClick of a button that is not disabled (line 319): lines 147-154, up to
\* the await
handleSimulateClick ==
  /\ ~app.loading
  /\ Len(appFetch.simulate) < MaxPolls
  /\ \E type \in simulationButtons :
       appFetch' = [appFetch EXCEPT !.simulate = Append(@, type)]
  /\ app' = [app EXCEPT !.loading = TRUE, !.error = Null]
  /\ appDone' = Null
  /\ ServerIdle

\* a catch block without the finally block
handleSimulateFailsNoFinally ==
  /\ \E i \in 1..Len(appFetch.simulate) : \E failure \in AppSimulateFailures :
       /\ app' = [app EXCEPT
                    !.error = Some(OrElse(CaughtMessage(failure),
                                          Str(<<"Failed to trigger simulation">>)))]
       /\ appFetch' = [appFetch EXCEPT !.simulate = Without(@, i)]
  /\ appDone' = Some([op |-> "simulate", ok |-> FALSE])
  /\ ServerIdle

\* the response is ok: lines 156-171, then the finally block (lines 175-177)
handleSimulateOk ==
  /\ \E i \in 1..Len(appFetch.simulate) : \E payload \in AppPayloads(appFetch.simulate[i]) :
       /\ app' = [app EXCEPT
                    !.aiExplanation = OrElse(payload.aiExplanation, Str(<<>>)),
                    !.currentStatus = Some([id |-> payload.simulationId,
                                            type |-> payload.type,
                                            startTime |-> payload.timestamp,
                                            isActive |-> TRUE]),
                    !.metrics = Slice0(<<payload.simulationId>> \o @, MetricsShown),
                    !.loading = FALSE]
       /\ appFetch' = [appFetch EXCEPT !.simulate = Without(@, i)]
  /\ appDone' = Some([op |-> "simulate", ok |-> TRUE])
  /\ ServerIdle

\* fetch or json() rejects, or the response is not ok: lines 158-160 and the
\* catch block of lines 172-174, then the finally block (lines 175-177)
handleSimulateFails ==
  /\ \E i \in 1..Len(appFetch.simulate) : \E failure \in AppSimulateFailures :
       /\ app' = [app EXCEPT
                    !.error = Some(OrElse(CaughtMessage(failure),
                                          Str(<<"Failed to trigger simulation">>))),
                    !.loading = FALSE]
       /\ appFetch' = [appFetch EXCEPT !.simulate = Without(@, i)]
  /\ appDone' = Some([op |-> "simulate", ok |-> FALSE])
  /\ ServerIdle

\* fetchMetrics, the response is ok: lines 123-125
fetchMetricsOk ==
  /\ appFetch.metrics > 0
  /\ \E list \in AppMetricsLists :
       app' = [app EXCEPT !.metrics = IF list = Undefined THEN <<>> ELSE list.v,
                          !.error = Null]
  /\ appFetch' = [appFetch EXCEPT !.metrics = @ - 1]
  /\ appDone' = Some([op |-> "metrics", ok |-> TRUE])
  /\ ServerIdle

\* fetchMetrics, the fetch rejects or the response is not ok: lines 120-122
\* and 126-129
fetchMetricsFails ==
  /\ appFetch.metrics > 0
  /\ app' = [app EXCEPT
               !.error = Some(Str(<<"Unable to load metrics. Retrying automatically.">>))]
  /\ appFetch' = [appFetch EXCEPT !.metrics = @ - 1]
  /\ appDone' = Some([op |-> "metrics", ok |-> FALSE])
  /\ ServerIdle

\* fetchStatus, the response is ok: lines 138-139
fetchStatusOk ==
  /\ appFetch.status > 0
  /\ \E simulation \in AppStatusSimulations :
       app' = [app EXCEPT !.currentStatus = simulation]
  /\ appFetch' = [appFetch EXCEPT !.status = @ - 1]
  /\ appDone' = Some([op |-> "status", ok |-> TRUE])
  /\ ServerIdle

\* fetchStatus, the fetch rejects or the response is not ok: the catch block
\* of lines 140-142 logs the error
fetchStatusFails ==
  /\ appFetch.status > 0
  /\ appFetch' = [appFetch EXCEPT !.status = @ - 1]
  /\ appDone' = Some([op |-> "status", ok |-> FALSE])
  /\ UNCHANGED app
  /\ ServerIdle

\* the callback of setInterval runs, PollMs after it last ran (lines 185-188)
pollInterval ==
  /\ appFetch.sinceFire = PollMs
  /\ appFetch.metrics < MaxPolls /\ appFetch.status < MaxPolls
  /\ appFetch' = [appFetch EXCEPT !.metrics = @ + 1, !.status = @ + 1, !.sinceFire = 0]
  /\ appDone' = Null
  /\ UNCHANGED app
  /\ ServerIdle

\* time passes in the browser; the interval's callback runs when it is due
AppTick ==
  /\ appFetch.sinceFire < PollMs
  /\ appFetch' = [appFetch EXCEPT !.sinceFire = Min2(@ + AppTickMs, PollMs)]
  /\ appDone' = Null
  /\ UNCHANGED app
  /\ ServerIdle

(***************************************************************************)
(* Specifications                                                          *)
(***************************************************************************)
InitActor ==
  /\ currentSimulation = Null
  /\ metrics = getInitialMetrics
  /\ ready = FALSE
  /\ getFailed = FALSE
  /\ rejected = Null
  /\ stored = Null
  /\ now = 0
  /\ pc = [c \in Calls |-> "idle"]
  /\ req = [c \in Calls |-> Null]
  /\ loc = [c \in Calls |-> NoLocals]
  /\ timer = [c \in Calls |-> NoTimer]
  /\ aiRuns = [c \in Calls |-> 0]
  /\ answered = Null
  /\ statusResp = Null
  /\ restarts = 0
  /\ loaded = Null
  /\ explained = Null

\* an empty table, no request
InitGateway ==
  /\ history = <<>>
  /\ lastRowId = 0
  /\ inserted = <<>>
  /\ prunes = 0
  /\ pruned = "none"
  /\ wpc = [w \in Requests |-> "idle"]
  /\ wloc = [w \in Requests |-> NoWorkerLocals]
  /\ workerResp = Null

Init ==
  /\ InitActor
  /\ InitGateway
  /\ seqClient = [n |-> 0, period |-> 1, total |-> 0]
  /\ InitApp
  /\ envAI \in {"absent", "norun", "present"}
  /\ genIn = [type |-> "normal", rnd |-> [i \in 1..NumDraws |-> 0]]
  /\ genOut = Null

Next ==
  \/ Load
  \/ LoadFails
  \/ FetchGateRejects
  \/ \E c \in Calls : SimulateBadJson(c)
  \/ \E c \in Calls : SimulateInvalid(c)
  \/ \E c \in Calls : SimulatePersisted(c)
  \/ \E c \in Calls : SimulateStorageFails(c)
  \/ \E c \in Calls : AIReturn(c)
  \/ \E c \in Calls : AIThrow(c)
  \/ \E c \in Calls : TimerFire(c)
  \/ Status
  \/ Tick
  \/ Restart

Spec == Init /\ [][Next]_vars

\* generateMetrics alone, on every scenario and every vector of draws
InitGen ==
  /\ InitActor
  /\ InitGateway
  /\ seqClient = [n |-> 0, period |-> 1, total |-> 0]
  /\ InitApp
  /\ envAI = "absent"
  /\ genIn \in [type : generators, rnd : Draws]
  /\ genOut = Null

NextGen == GenerateCall

SpecGen == InitGen /\ [][NextGen]_vars

\* the Worker in front of the Durable Object and the D1 table
InitWorker ==
  /\ InitActor
  /\ InitGateway
  /\ seqClient = [n |-> 0, period |-> 1, total |-> 0]
  /\ InitApp
  /\ envAI \in {"absent", "present"}
  /\ genIn = [type |-> "normal", rnd |-> [i \in 1..NumDraws |-> 0]]
  /\ genOut = Null

NextWorker ==
  \/ Load
  \/ Tick
  \/ \E w \in Requests : WorkerBadJson(w)
  \/ \E w \in Requests : WorkerNullBody(w)
  \/ \E w \in Requests : WorkerInvalidType(w)
  \/ \E w \in Requests : WorkerSimulatePersisted(w)
  \/ \E w \in Requests : WorkerSimulateStorageFails(w)
  \/ \E w \in Requests : WorkerAIReturn(w)
  \/ \E w \in Requests : WorkerAIThrow(w)
  \/ \E w \in Requests : WorkerTimerFire(w)
  \/ \E w \in Requests : WorkerActorFailed(w)
  \/ \E w \in Requests : WorkerStores(w)
  \/ \E w \in Requests : WorkerInsertFails(w)
  \/ limitStoredMetrics
  \/ limitStoredMetricsFails

SpecWorker == InitWorker /\ [][NextWorker]_vars

\* the sequential client in front of the Worker
InitHistory ==
  /\ InitActor
  /\ InitGateway
  /\ seqClient \in [n : {0}, period : ClockPeriods, total : {NumInserts}]
  /\ InitApp
  /\ envAI = "absent"
  /\ genIn = [type |-> "normal", rnd |-> [i \in 1..NumDraws |-> 0]]
  /\ genOut = Null

NextHistory ==
  \/ Load
  \/ SequentialRequest
  \/ limitStoredMetrics

SpecHistory == InitHistory /\ [][NextHistory]_vars

\* the sequential client with a few requests, the prune failing or not, and
\* list-recent requests in between
InitRecent ==
  /\ InitActor
  /\ InitGateway
  /\ seqClient \in [n : {0}, period : ClockPeriods, total : {NumRecent}]
  /\ InitApp
  /\ envAI = "absent"
  /\ genIn = [type |-> "normal", rnd |-> [i \in 1..NumDraws |-> 0]]
  /\ genOut = Null

NextRecent ==
  \/ Load
  \/ SequentialRequest
  \/ limitStoredMetrics
  \/ limitStoredMetricsFails
  \/ handleGetMetrics
  \/ handleGetMetricsFails

SpecRecent == InitRecent /\ [][NextRecent]_vars

\* a table at the cap: the state the sequential client leaves after its n-th
\* request and prune when the clock advances with every request (the i-th
\* request is answered at time i - 1), for n one below the cap and at the cap;
\* then requests that overlap in the Worker
FilledRecord(i) ==
  NewSimulation([type |-> TypeCycle[(i % 3) + 1], simulationId |-> SimId(NumRequests + i)],
                i - 1)

FilledMetrics(i) ==
  generateMetrics(TypeCycle[(i % 3) + 1], CHOOSE rnd \in ActorDraws(i) : TRUE)

FilledRow(i) ==
  HistoryRow(i, SimId(NumRequests + i), TypeCycle[(i % 3) + 1],
             Response200([simulation |-> Some(FilledRecord(i)),
                          metrics |-> Some(FilledMetrics(i)), timestamp |-> i - 1],
                         ExplainNoBinding(TypeCycle[(i % 3) + 1]).value))

InitFull ==
  /\ \E n \in {HistoryCap - 1, HistoryCap} :
       /\ history = [i \in 1..n |-> FilledRow(i)]
       /\ lastRowId = n
       /\ inserted = [i \in 1..n |-> i - 1]
       /\ seqClient = [n |-> n, period |-> 1, total |-> n]
       /\ InitApp
       /\ now = n
       /\ currentSimulation = Some(FilledRecord(n))
       /\ metrics = FilledMetrics(n)
       /\ stored = StateBlob(Some(FilledRecord(n)), FilledMetrics(n))
  /\ prunes = 0
  /\ pruned = "ok"
  /\ wpc = [w \in Requests |-> "idle"]
  /\ wloc = [w \in Requests |-> NoWorkerLocals]
  /\ workerResp = Null
  /\ ready = TRUE
  /\ getFailed = FALSE
  /\ rejected = Null
  /\ pc = [c \in Calls |-> "idle"]
  /\ req = [c \in Calls |-> Null]
  /\ loc = [c \in Calls |-> NoLocals]
  /\ timer = [c \in Calls |-> NoTimer]
  /\ aiRuns = [c \in Calls |-> 0]
  /\ answered = Null
  /\ statusResp = Null
  /\ restarts = 0
  /\ loaded = Null
  /\ explained = Null
  /\ envAI = "absent"
  /\ genIn = [type |-> "normal", rnd |-> [i \in 1..NumDraws |-> 0]]
  /\ genOut = Null

NextFull ==
  \/ \E w \in Requests : WorkerSimulatePersisted(w)
  \/ \E w \in Requests : WorkerStores(w)
  \/ \E w \in Requests : WorkerInsertFails(w)
  \/ limitStoredMetrics
  \/ limitStoredMetricsFails

SpecFull == InitFull /\ [][NextFull]_vars

\* every route of the Worker, the Durable Object loading or failing to load,
\* no binding env.AI
InitRouter ==
  /\ InitActor
  /\ InitGateway
  /\ seqClient = [n |-> 0, period |-> 1, total |-> 0]
  /\ InitApp
  /\ envAI = "absent"
  /\ genIn = [type |-> "normal", rnd |-> [i \in 1..NumDraws |-> 0]]
  /\ genOut = Null

NextRouter ==
  \/ Load
  \/ LoadFails
  \/ WorkerOptions
  \/ WorkerMethodNotAllowed
  \/ WorkerNotFound
  \/ handleGetStatus
  \/ handleGetStatusRejected
  \/ handleGetMetrics
  \/ handleGetMetricsFails
  \/ \E w \in Requests : WorkerBadJson(w)
  \/ \E w \in Requests : WorkerNullBody(w)
  \/ \E w \in Requests : WorkerInvalidType(w)
  \/ \E w \in Requests : WorkerSimulatePersisted(w)
  \/ \E w \in Requests : WorkerSimulateStorageFails(w)
  \/ \E w \in Requests : WorkerSimulateGateRejects(w)
  \/ \E w \in Requests : WorkerActorFailed(w)
  \/ \E w \in Requests : WorkerStores(w)
  \/ \E w \in Requests : WorkerInsertFails(w)
  \/ limitStoredMetrics
  \/ limitStoredMetricsFails

SpecRouter == InitRouter /\ [][NextRouter]_vars

\* the dashboard alone, the server standing behind what its requests give
InitDashboard ==
  /\ InitActor
  /\ InitGateway
  /\ seqClient = [n |-> 0, period |-> 1, total |-> 0]
  /\ InitApp
  /\ envAI = "absent"
  /\ genIn = [type |-> "normal", rnd |-> [i \in 1..NumDraws |-> 0]]
  /\ genOut = Null

NextDashboard ==
  \/ handleSimulateClick
  \/ handleSimulateOk
  \/ handleSimulateFails
  \/ fetchMetricsOk
  \/ fetchMetricsFails
  \/ fetchStatusOk
  \/ fetchStatusFails
  \/ pollInterval
  \/ AppTick

SpecDashboard == InitDashboard /\ [][NextDashboard]_vars

(***************************************************************************)
(* Properties                                                              *)
(***************************************************************************)
InFlight(c) == pc[c] = "awaitAI"
\* the answer a is the 200 response of handleSimulateRequest
Succeeded(a) == ~a.response.thrown /\ a.response.status = 200

\* C1: simulate calls run one at a time: while one call is between its first
\* and its last step, no other simulate call takes a step (none starts, none
\* answers).
C1_NoInterleaving ==
  [][\A c \in Calls : \A d \in Calls \ {c} :
       InFlight(c) => pc'[d] = pc[d]]_vars

\* C2: a simulate call whose durable write fails leaves the in-memory
\* currentSimulation and metrics as they were before the call.
C2_RollbackOnStorageFailure ==
  [][(~IsNull(answered') /\ Val(answered').put = "failed")
       => (currentSimulation' = currentSimulation /\ metrics' = metrics)]_vars

\* C3: whenever the object can be restarted, the status a fresh object would
\* give after loading the blob equals the status the running object gives at
\* the same clock reading.
C3_RestartPreservesStatus ==
  (ready /\ \A c \in Calls : ~InFlight(c))
    => StatusPayload(LoadedSimulation(stored, Null),
                     LoadedMetrics(stored, getInitialMetrics), now)
         = StatusPayload(currentSimulation, metrics, now)

\* C4: a step that answers a status request, or that starts or answers a
\* simulate request, is taken only once the load from storage is over.
C4_NoResponseBeforeRestore ==
  [][(~IsNull(statusResp') \/ ~IsNull(answered') \/ \E c \in Calls : pc'[c] # pc[c])
       => ready]_vars

\* C4 witness: after a restart, a status request was answered with the
\* simulation that the load read from storage.
C4_Witness ==
  /\ restarts > 0
  /\ ~IsNull(loaded)
  /\ ~IsNull(statusResp)
  /\ ~IsNull(Val(statusResp).simulation)
  /\ Val(statusResp).simulation = WithIsActive(Val(loaded).currentSimulation, now)

C6_HasText(e) ==
  /\ e.outcome = "returned"
  /\ responseText(e.result).t = "string"
  /\ \E i \in 1..Len(responseText(e.result).v) : responseText(e.result).v[i] \notin WS

\* text is raw without the whitespace at its two ends
C6_IsTrimOf(text, raw) ==
  /\ text # <<>>
  /\ text[1] \notin WS /\ text[Len(text)] \notin WS
  /\ \E i \in 0..Len(raw) : \E j \in 0..(Len(raw) - i) :
       /\ SubSeq(raw, i + 1, Len(raw) - j) = text
       /\ \A k \in 1..i : raw[k] \in WS
       /\ \A k \in (Len(raw) - j + 1)..Len(raw) : raw[k] \in WS

\* C6: every getAIExplanation call returns (never throws) a non-empty string:
\* the capability's text without its outer whitespace when that text has a
\* non-whitespace part, and otherwise (no binding, error, abort, empty or
\* whitespace-only or non-string response) the canned text of its scenario.
C6_ExplainTotalWithFallback ==
  ~IsNull(explained) =>
    LET e == Val(explained) IN
    /\ e.settled.ok
    /\ e.settled.value # <<>>
    /\ IF C6_HasText(e)
       THEN C6_IsTrimOf(e.settled.value, responseText(e.result).v)
       ELSE e.settled.value = fallback(e.type)

\* C6 witness: the capability resolved with a whitespace-only response and
\* the call returned the canned ddos text.
C6_Witness ==
  /\ ~IsNull(explained)
  /\ Val(explained).outcome = "returned"
  /\ Val(explained).type = "ddos"
  /\ Response(Val(explained).result) = Str(<<" ", "\n">>)
  /\ Val(explained).settled.value = fallback("ddos")

C8_ValidRequest(b) ==
  /\ ~IsNull(b)
  /\ Val(b).type \in {"normal", "spike", "ddos"}
  /\ Val(b).simulationId.t = "string"

C9_In(x, lo, hi) == lo <= x /\ x <= hi

\* C9: every MetricPair generateMetrics returns is within the documented
\* bounds of its scenario (success rates in tenths of a percent).
C9_MetricsWithinBounds ==
  ~IsNull(genOut) =>
    LET cf == Val(genOut).cloudflare
        og == Val(genOut).origin
    IN
    /\ C9_In(cf.successRate, 0, 1000) /\ C9_In(og.successRate, 0, 1000)
    /\ genIn.type = "normal" =>
         /\ C9_In(cf.latency, 95, 105) /\ cf.successRate = 1000
         /\ cf.requestsHandled = 10 /\ cf.errors = 0
         /\ C9_In(og.latency, 100, 120) /\ og.successRate = 1000
         /\ og.requestsHandled = 10 /\ og.errors = 0
    /\ genIn.type = "spike" =>
         /\ C9_In(cf.latency, 120, 150) /\ C9_In(cf.successRate, 980, 1000)
         /\ cf.requestsHandled = 500 /\ C9_In(cf.errors, 0, 9)
         /\ C9_In(og.latency, 2000, 3000) /\ C9_In(og.successRate, 400, 600)
         /\ og.requestsHandled = 300 /\ og.errors = 200
    /\ genIn.type = "ddos" =>
         /\ C9_In(cf.latency, 150, 200) /\ C9_In(cf.successRate, 950, 980)
         /\ cf.requestsHandled = 10000 /\ C9_In(cf.errors, 0, 499)
         /\ C9_In(og.latency, 5000, 7000) /\ C9_In(og.successRate, 0, 100)
         /\ og.requestsHandled = 500 /\ og.errors = 9500

\* C9 witness: a ddos pair generated from the largest draws.
C9_Witness ==
  /\ ~IsNull(genOut)
  /\ genIn.type = "ddos"
  /\ \A i \in 1..NumDraws : genIn.rnd[i] = RandDen - 1
  /\ Val(genOut).origin.errors = 9500
  /\ Val(genOut).cloudflare.errors > 0

\* C10: when a simulate call answers 200, the in-memory state and the blob
\* hold exactly the simulation and the metrics of that answer.
C10_StateHoldsReturnedCall ==
  [][(~IsNull(answered') /\ Succeeded(Val(answered')))
       => LET r == Val(answered').response IN
          /\ currentSimulation' = r.simulation
          /\ metrics' = Val(r.metrics)
          /\ stored' = StateBlob(r.simulation, Val(r.metrics))]_vars

\* C11: a step that answers a status request changes neither
\* this.currentSimulation (its stored isActive included) nor this.metrics nor
\* the blob.
C11_StatusReadOnly ==
  [][~IsNull(statusResp')
       => /\ currentSimulation' = currentSimulation
          /\ metrics' = metrics
          /\ stored' = stored]_vars

\* C11 witness: a status reported isActive false while the record in memory
\* and the record in the blob still carry isActive true.
C11_Witness ==
  /\ ~IsNull(statusResp) /\ ~IsNull(Val(statusResp).simulation)
  /\ ~Val(Val(statusResp).simulation).isActive
  /\ ~IsNull(currentSimulation) /\ Val(currentSimulation).isActive
  /\ ~IsNull(stored) /\ Val(stored).currentSimulation = currentSimulation

\* C12: when a current simulation exists, a status response carries that
\* record with isActive true exactly when the response's timestamp is less
\* than 30000 ms after the record's startTime, whatever isActive the record
\* holds.
C12_IsActiveFromClock ==
  (~IsNull(statusResp) /\ ~IsNull(currentSimulation)) =>
    LET r == Val(statusResp)
        sim == Val(currentSimulation)
    IN
    /\ r.timestamp = now
    /\ ~IsNull(r.simulation)
    /\ Val(r.simulation).id = sim.id
    /\ Val(r.simulation).type = sim.type
    /\ Val(r.simulation).startTime = sim.startTime
    /\ Val(r.simulation).isActive = (now - sim.startTime < 30000)

\* C12 witness: a status read exactly 30000 ms after the start reported
\* isActive false for a record stored with isActive true.
C12_Witness ==
  /\ ~IsNull(statusResp) /\ ~IsNull(currentSimulation)
  /\ Val(statusResp).timestamp - Val(currentSimulation).startTime = 30000
  /\ Val(currentSimulation).isActive
  /\ ~Val(Val(statusResp).simulation).isActive

\* C13: as long as nothing was ever stored (no simulate has succeeded), every
\* status response carries no simulation and the default metrics: latency
\* 100, success rate 100, requests 0, errors 0 on both sides.
C13_DefaultsUntilFirstSimulate ==
  (~IsNull(statusResp) /\ IsNull(stored)) =>
    /\ IsNull(Val(statusResp).simulation)
    /\ \A side \in {"cloudflare", "origin"} :
         Val(statusResp).metrics[side] =
           [latency |-> 100, successRate |-> 1000, requestsHandled |-> 0, errors |-> 0]

\* the body b has a known scenario and an id that is empty or not a string
C19_EmptyOrMissingId(b) ==
  /\ ~IsNull(b)
  /\ Val(b).type \in {"normal", "spike", "ddos"}
  /\ (Val(b).simulationId.t # "string" \/ Val(b).simulationId.v = <<>>)

\* the body b has a known scenario and an id that is not a string
C19_MissingId(b) ==
  /\ ~IsNull(b)
  /\ Val(b).type \in {"normal", "spike", "ddos"}
  /\ Val(b).simulationId.t # "string"

\* the step answers call c with 400 and touches neither memory nor the blob
C19_Rejected(c) ==
  /\ pc'[c] = "done"
  /\ ~Val(answered').response.thrown
  /\ Val(answered').response.status = 400
  /\ currentSimulation' = currentSimulation
  /\ metrics' = metrics
  /\ stored' = stored

\* C19 (as claimed): a simulate call with a known scenario and an empty or
\* missing id answers 400 and leaves the in-memory state and the blob
\* unchanged.
C19_EmptyOrMissingIdRejected ==
  [][\A c \in Calls :
       LET body == IF pc'[c] = "done" THEN Val(answered').body ELSE req'[c] IN
       (pc[c] = "idle" /\ pc'[c] # "idle" /\ C19_EmptyOrMissingId(body))
         => C19_Rejected(c)]_vars

\* C19 (amended): a simulate call with a known scenario and an id that is not
\* a string answers 400 and leaves the in-memory state and the blob unchanged;
\* a call whose id is the empty string is not answered 400.
C19_MissingIdRejected ==
  [][\A c \in Calls :
       LET body == IF pc'[c] = "done" THEN Val(answered').body ELSE req'[c] IN
       (pc[c] = "idle" /\ pc'[c] # "idle") =>
         /\ C19_MissingId(body) => C19_Rejected(c)
         /\ (C19_EmptyOrMissingId(body) /\ ~C19_MissingId(body)) =>
              (pc'[c] = "done" => Val(answered').response.status # 400)]_vars

\* C19 witness: a call with scenario "normal" and no simulationId was
\* answered 400 while the object held a persisted simulation.
C19_Witness ==
  /\ ~IsNull(answered)
  /\ C19_MissingId(Val(answered).body)
  /\ Val(answered).response.status = 400
  /\ ~IsNull(stored) /\ ~IsNull(currentSimulation)

\* the ids of the rows in the table
C14_KeptIds == {history[i].id : i \in 1..Len(history)}

\* C14: after n sequential create-simulation requests, the last prune having
\* run, the table holds min(n, 500) rows, each as it was inserted, and no
\* evicted row is newer than a row still in the table; with distinct
\* timestamps the rows left are the last 500 inserted.
C14_HistoryCapped ==
  (prunes = 0 /\ pruned # "failed") =>
    LET n == seqClient.n IN
    /\ lastRowId = n /\ Len(inserted) = n
    /\ Len(history) = (IF n < 500 THEN n ELSE 500)
    /\ \A i \in 1..Len(history) :
         /\ history[i].id \in 1..n
         /\ history[i].timestamp = inserted[history[i].id]
    /\ n > 500 =>
         /\ Cardinality(C14_KeptIds) = 500
         /\ \A e \in (1..n) \ C14_KeptIds : \A i \in 1..Len(history) :
              inserted[e] <= history[i].timestamp
         /\ seqClient.period = 1 => C14_KeptIds = (n - 499)..n

\* C14 witness: 510 requests were sent and pruned; 500 rows are left and the
\* oldest of them is the 11th inserted.
C14_Witness ==
  /\ seqClient.n = 510 /\ prunes = 0 /\ pruned = "ok"
  /\ Len(history) = 500
  /\ history[1].id = 11 /\ history[500].id = 510

\* C15: a request whose INSERT succeeded is answered 200 with the id, the
\* scenario and the metrics, explanation and timestamp the Durable Object
\* returned, in the step that hands the prune to ctx.waitUntil (so before the
\* prune has run); and a step in which a prune runs, ended well or not,
\* answers no request and moves no request.
C15_PruneNeverFailsRequest ==
  [][/\ (~IsNull(workerResp') /\ Val(workerResp').insert = "ok") =>
          LET a == Val(workerResp') IN
          /\ a.response.status = 200
          /\ a.response.data.error = ""
          /\ ~IsNull(a.response.data.simulationId)
          /\ a.response.data.type = a.body.type
          /\ a.response.data.metrics = Val(a.doResponse).metrics
          /\ a.response.data.aiExplanation = Val(a.doResponse).aiExplanation
          /\ a.response.data.timestamp = Some(Val(a.doResponse).timestamp)
          /\ prunes' = prunes + 1
     /\ prunes' < prunes => (IsNull(workerResp') /\ wpc' = wpc)]_vars

\* C15 witness: a prune failed after every request had been answered and a
\* row had been written.
C15_Witness ==
  /\ pruned = "failed" /\ prunes = 0
  /\ Len(history) > 0
  /\ \A w \in Requests : wpc[w] = "done"

\* C16: a request whose INSERT failed after the Durable Object answered 200
\* is answered 500 'Database error'; the step adds no row and hands no prune
\* to ctx.waitUntil.
C16_InsertFailureSurfaced ==
  [][(~IsNull(workerResp') /\ Val(workerResp').insert = "failed") =>
       LET a == Val(workerResp') IN
       /\ Val(a.doResponse).status = 200
       /\ a.response.status = 500
       /\ a.response.data.error = "Database error"
       /\ history' = history
       /\ lastRowId' = lastRowId
       /\ prunes' = prunes]_vars

\* C16 witness: the Durable Object persisted a simulation, the INSERT failed
\* and the request was answered 500.
C16_Witness ==
  /\ ~IsNull(workerResp)
  /\ Val(workerResp).insert = "failed"
  /\ Val(workerResp).response.status = 500
  /\ ~IsNull(stored) /\ history = <<>> /\ prunes = 0

\* C17: a request whose call to the Durable Object rejected, or was answered
\* with a status that is not ok, is answered with a status of 400 or more;
\* the INSERT is not reached, the table is unchanged and no prune is handed
\* to ctx.waitUntil.
C17_ActorFailureSurfaced ==
  [][(/\ ~IsNull(workerResp')
      /\ ~IsNull(Val(workerResp').doResponse)
      /\ (Val(Val(workerResp').doResponse).thrown
            \/ Val(Val(workerResp').doResponse).status # 200)) =>
       LET a == Val(workerResp') IN
       /\ a.response.status >= 400
       /\ a.response.data.error # ""
       /\ a.insert = "none"
       /\ history' = history
       /\ lastRowId' = lastRowId
       /\ prunes' = prunes]_vars

\* C17 witness: the put of the Durable Object failed, its fetch rejected and
\* the request was answered 500 with no row written.
C17_Witness ==
  /\ ~IsNull(workerResp)
  /\ ~IsNull(Val(workerResp).doResponse)
  /\ Val(Val(workerResp).doResponse).thrown
  /\ Val(workerResp).response.status = 500
  /\ history = <<>>

\* C18: a create-simulation request whose body is not JSON, or is JSON with
\* a type other than normal, spike, ddos, is answered 400 in a step that does
\* not call the Durable Object, changes neither its state nor the blob, adds
\* no row and hands no prune to ctx.waitUntil.
C18_RouterRejectsInvalid ==
  [][(/\ ~IsNull(workerResp')
      /\ Val(workerResp').route = "simulate"
      /\ (Val(workerResp').body.json # "object"
            \/ Val(workerResp').body.type \notin {"normal", "spike", "ddos"})) =>
       LET a == Val(workerResp') IN
       /\ a.response.status = 400
       /\ IsNull(a.doResponse)
       /\ pc' = pc
       /\ currentSimulation' = currentSimulation
       /\ metrics' = metrics
       /\ stored' = stored
       /\ history' = history
       /\ prunes' = prunes]_vars

\* the rows of a metrics response are rows of the table, reformatted
C20_FromTable(rows) ==
  \A i \in 1..Len(rows) : \E j \in 1..Len(history) :
    history[j].id = rows[i].id /\ rows[i] = Formatted(history[j])

\* C20: a step that answers list-recent changes neither the table nor the
\* Durable Object's state nor the blob; a 200 answer carries min(5, number
\* of rows) distinct rows of the table, in order of non-increasing timestamp,
\* and no row left out is newer than a row returned.
C20_ListRecent ==
  [][(~IsNull(workerResp') /\ Val(workerResp').route = "metrics") =>
       LET r == Val(workerResp').response
           rows == r.data.rows
       IN
       /\ history' = history /\ lastRowId' = lastRowId /\ prunes' = prunes
       /\ currentSimulation' = currentSimulation /\ metrics' = metrics
       /\ stored' = stored
       /\ r.status = 200 =>
            /\ Len(rows) = (IF Len(history) < 5 THEN Len(history) ELSE 5)
            /\ C20_FromTable(rows)
            /\ \A i \in 1..Len(rows) : \A j \in 1..Len(rows) :
                 /\ i < j => rows[i].timestamp >= rows[j].timestamp
                 /\ i # j => rows[i].id # rows[j].id
            /\ \A j \in 1..Len(history) :
                 (\A i \in 1..Len(rows) : rows[i].id # history[j].id)
                   => \A i \in 1..Len(rows) : history[j].timestamp <= rows[i].timestamp]_vars

\* C20 witness: list-recent answered 5 rows out of a longer table, two of
\* them with the same timestamp, newest first.
C20_Witness ==
  /\ ~IsNull(workerResp) /\ Val(workerResp).route = "metrics"
  /\ Val(workerResp).response.status = 200
  /\ Len(history) > 5
  /\ LET rows == Val(workerResp).response.data.rows IN
     /\ Len(rows) = 5
     /\ rows[1].timestamp > rows[5].timestamp
     /\ rows[1].timestamp = rows[2].timestamp
     /\ rows[1].id = lastRowId

\* C30: on an object whose read of the blob failed in the constructor, a
\* request can only be rejected: no step answers a status or a simulate
\* request, starts a simulate call, or changes the in-memory state or the
\* blob.
C30_NoServiceAfterFailedRestore ==
  [][getFailed =>
       /\ ENABLED FetchGateRejects
       /\ IsNull(statusResp')
       /\ IsNull(answered')
       /\ pc' = pc
       /\ currentSimulation' = currentSimulation
       /\ metrics' = metrics
       /\ stored' = stored]_vars

\* C30 witness: the object was re-created while the blob held a simulation,
\* the read failed, and a status request was rejected with the blob intact
\* and the fields at their defaults.
C30_Witness ==
  /\ getFailed
  /\ rejected = Some("status")
  /\ ~IsNull(stored) /\ ~IsNull(Val(stored).currentSimulation)
  /\ IsNull(currentSimulation) /\ metrics = getInitialMetrics

\* C29: generateMetrics is never called with a scenario outside normal,
\* spike, ddos: no simulate call ends in the TypeError of "generators[type]()",
\* and every call that got as far as line 110 carried one of the three.
C29_GeneratorNeverUnknown ==
  /\ \A c \in Calls :
       InFlight(c) => Val(req[c]).type \in {"normal", "spike", "ddos"}
  /\ ~IsNull(answered) =>
       LET a == Val(answered) IN
       /\ ~(a.response.thrown /\ a.response.error = "TypeError")
       /\ a.put # "none" => Val(a.body).type \in {"normal", "spike", "ddos"}

\* C29 witness: a call with scenario "flood" was answered 400 without
\* reaching line 110, while another call was waiting for the capability.
C29_Witness ==
  /\ ~IsNull(answered)
  /\ ~IsNull(Val(answered).body) /\ Val(Val(answered).body).type = "flood"
  /\ Val(answered).put = "none"
  /\ Val(answered).response.status = 400
  /\ \E c \in Calls : InFlight(c)

\* C27: a getAIExplanation call runs the capability at most once: not at all
\* when the binding is missing or has no run function, and exactly once
\* otherwise, whether the run resolved (with a text, an empty, a blank or a
\* non-string response, or nothing), threw or was aborted by the timer; the
\* call then returns at once, with the canned text in every case but that of
\* a text.
C27_SingleAttempt ==
  /\ \A c \in Calls : aiRuns[c] = (IF InFlight(c) THEN 1 ELSE 0)
  /\ \A c \in Calls : InFlight(c) => envAI = "present"
  /\ ~IsNull(explained) =>
       LET e == Val(explained) IN
       /\ e.runs = (IF envAI = "present" THEN 1 ELSE 0)
       /\ (e.outcome = "nobinding") = (envAI # "present")
       /\ (e.outcome # "returned" \/ trimmed(e.result) = <<>>)
            => e.settled = [ok |-> TRUE, value |-> fallback(e.type)]
       /\ ~IsNull(answered) /\ Val(answered).call = e.call

\* C27 witness: the capability threw, it had been run once, and the call
\* returned the canned text in the same step.
C27_Witness ==
  /\ ~IsNull(explained)
  /\ Val(explained).outcome = "threw"
  /\ Val(explained).runs = 1
  /\ Val(explained).settled.value = fallback(Val(explained).type)
  /\ aiRuns[Val(explained).call] = 0

\* the record sim and the pair m were made by one simulate call: the pair is
\* what generateMetrics gives for the record's scenario on the draws of the
\* call whose id the record carries
C22_PairOfOneCall(sim, m) ==
  \E c \in Calls : \E rnd \in ActorDraws(c) :
    /\ sim.id \in {SimId(c), Str(<<>>)}
    /\ sim.type \in {"normal", "spike", "ddos"}
    /\ m = generateMetrics(sim.type, rnd)

\* C22: every status response carries either no record and the initial
\* metrics, or the record of a simulate call together with the metrics that
\* same call generated.
C22_ConsistentSnapshot ==
  ~IsNull(statusResp) =>
    LET r == Val(statusResp) IN
    IF IsNull(r.simulation) THEN r.metrics = getInitialMetrics
    ELSE C22_PairOfOneCall(Val(r.simulation), r.metrics)

\* C22 witness: a status answered while the first call is suspended carries
\* the record and the metrics of the second call, which has overwritten the
\* first call's.
C22_Witness ==
  /\ ~IsNull(statusResp)
  /\ InFlight(1)
  /\ ~IsNull(Val(statusResp).simulation)
  /\ Val(Val(statusResp).simulation).id = SimId(2)
  /\ Val(statusResp).metrics # Val(loc[1].metrics)

\* C23: whenever a simulate call is suspended on the capability, a status
\* request can be answered at once: the step that answers it is enabled, the
\* suspended call not having moved.
C23_StatusNotBlocked ==
  (\E c \in Calls : InFlight(c)) => (ENABLED Status)

\* C23 witness: a status was answered, time having passed since a simulate
\* call entered getAIExplanation, and that call is still suspended.
C23_Witness ==
  /\ ~IsNull(statusResp)
  /\ \E c \in Calls :
       /\ InFlight(c)
       /\ loc[c].timestamp < Val(statusResp).timestamp
       /\ Val(statusResp).simulation = WithIsActive(loc[c].simulation, now)

C26_MadeForRequest(d, l) ==
  /\ Val(d.simulation).id = l.simulationId
  /\ Val(d.simulation).type = l.type
  /\ Val(d.simulation).startTime = d.timestamp
  /\ \E rnd \in ActorDraws(l.call) : Val(d.metrics) = generateMetrics(l.type, rnd)

\* C26: the payload the Worker receives from the Durable Object for a request
\* is the one made for that request, with the explanation returned to its
\* call; it is kept unchanged until the request is answered; and the row
\* inserted and the 200 response carry that request's id and scenario and the
\* payload's timestamp, metrics and explanation.
C26_OwnRecordReturnedAndStored ==
  [][/\ \A w \in Requests :
          /\ (wpc[w] # "gotDO" /\ wpc'[w] = "gotDO"
                /\ DoResponseOk(Val(wloc'[w].doResponse)))
               => /\ C26_MadeForRequest(Val(wloc'[w].doResponse), wloc'[w])
                  /\ ~IsNull(explained')
                  /\ Val(explained').call = wloc'[w].call
                  /\ Val(explained').type = wloc'[w].type
                  /\ Val(explained').settled.value = Val(wloc'[w].doResponse).aiExplanation
          /\ (wpc[w] = "gotDO" /\ wpc'[w] = "gotDO") => wloc'[w] = wloc[w]
     /\ (~IsNull(workerResp') /\ Val(workerResp').insert = "ok")
          => LET a == Val(workerResp')
                 l == wloc[a.request]
                 d == Val(l.doResponse)
                 row == history'[Len(history')]
             IN
             /\ C26_MadeForRequest(d, l)
             /\ Len(history') = Len(history) + 1
             /\ row.id = lastRowId'
             /\ row.simulation_id = l.simulationId
             /\ row.simulation_type = l.type
             /\ row.timestamp = d.timestamp
             /\ row.cf_latency_ms = Val(d.metrics).cloudflare.latency
             /\ row.cf_success_rate = Val(d.metrics).cloudflare.successRate
             /\ row.cf_requests_handled = Val(d.metrics).cloudflare.requestsHandled
             /\ row.cf_errors = Val(d.metrics).cloudflare.errors
             /\ row.origin_latency_ms = Val(d.metrics).origin.latency
             /\ row.origin_success_rate = Val(d.metrics).origin.successRate
             /\ row.origin_requests_handled = Val(d.metrics).origin.requestsHandled
             /\ row.origin_errors = Val(d.metrics).origin.errors
             /\ row.ai_explanation = d.aiExplanation
             /\ a.response.status = 200
             /\ a.response.data.simulationId = Some(l.simulationId)
             /\ a.response.data.type = l.type
             /\ a.response.data.timestamp = Some(d.timestamp)
             /\ a.response.data.metrics = d.metrics
             /\ a.response.data.aiExplanation = d.aiExplanation]_vars

\* C26 witness: the first request was answered 200 and its row written after
\* the second request's call had replaced the record and the metrics in the
\* Durable Object; response and row carry the first request's.
C26_Witness ==
  /\ ~IsNull(workerResp)
  /\ Val(workerResp).insert = "ok"
  /\ Val(workerResp).request = 1
  /\ ~IsNull(currentSimulation)
  /\ Val(currentSimulation).id = SimId(2)
  /\ Val(workerResp).response.data.simulationId = Some(SimId(1))
  /\ Val(workerResp).response.data.metrics # Some(metrics)
  /\ history[Len(history)].simulation_id = SimId(1)
  /\ history[Len(history)].cf_latency_ms # metrics.cloudflare.latency

\* C28: every row of the table, the record in memory and the record in the
\* blob carry one of the scenarios normal, spike, ddos; and so does every
\* request that has got as far as the INSERT, whether the INSERT succeeds or
\* fails.
C28_ScenarioEnumerated ==
  /\ \A i \in 1..Len(history) :
       history[i].simulation_type \in {"normal", "spike", "ddos"}
  /\ ~IsNull(currentSimulation)
       => Val(currentSimulation).type \in {"normal", "spike", "ddos"}
  /\ (~IsNull(stored) /\ ~IsNull(Val(stored).currentSimulation))
       => Val(Val(stored).currentSimulation).type \in {"normal", "spike", "ddos"}
  /\ \A w \in Requests :
       (wpc[w] = "gotDO" /\ DoResponseOk(Val(wloc[w].doResponse)))
         => wloc[w].type \in {"normal", "spike", "ddos"}
  /\ (~IsNull(workerResp) /\ Val(workerResp).insert # "none")
       => Val(workerResp).body.type \in {"normal", "spike", "ddos"}

\* C28 witness: a request with scenario "flood" was answered while the table
\* holds a row and the blob a record.
C28_Witness ==
  /\ ~IsNull(workerResp)
  /\ Val(workerResp).body.json = "object"
  /\ Val(workerResp).body.type = "flood"
  /\ Len(history) > 0
  /\ ~IsNull(stored)

\* C21: every response of the Worker carries the three CORS headers.
C21_CorsOnEveryResponse ==
  ~IsNull(workerResp) =>
    LET h == Val(workerResp).response.headers IN
    /\ <<"Access-Control-Allow-Origin", "*">> \in h
    /\ <<"Access-Control-Allow-Methods", "GET, POST, OPTIONS">> \in h
    /\ <<"Access-Control-Allow-Headers", "Content-Type">> \in h

\* C21 witness: the status route met a Durable Object whose constructor had
\* failed, and the 500 of the catch block of fetch carries the header that
\* lets any origin read it.
C21_Witness ==
  /\ ~IsNull(workerResp)
  /\ Val(workerResp).route = "status"
  /\ Val(workerResp).response.status = 500
  /\ Val(workerResp).response.data.error = "Internal Server Error"
  /\ <<"Access-Control-Allow-Origin", "*">> \in Val(workerResp).response.headers

\* C25 (as claimed): the table never holds more than 500 rows.
C25_NeverAboveCap == Len(history) <= 500

\* C25 (amended): the table holds at most 500 rows right after every prune
\* that succeeds, and whenever no prune is pending and the last one
\* succeeded; an INSERT adds one row and hands over one prune, and a prune
\* that fails leaves the table as it is, so that until the next successful
\* prune the table may hold more than 500 rows.
C25_CapRestoredByPrune ==
  [][/\ Len(history') <= Len(history) + 1
     /\ Len(history') > Len(history) => prunes' = prunes + 1
     /\ (prunes' < prunes /\ pruned' = "ok")
          => Len(history') = (IF Len(history) < 500 THEN Len(history) ELSE 500)
     /\ (prunes' < prunes /\ pruned' = "failed") => history' = history
     /\ (prunes' = 0 /\ pruned' = "ok") => Len(history') <= 500]_vars

\* C25 witness: two overlapping requests had brought the table to 502 rows,
\* a prune failed, and the other prune has cut the table back to 500 rows.
C25_Witness ==
  /\ lastRowId = 502
  /\ prunes = 0 /\ pruned = "ok"
  /\ Len(history) = 500
  /\ history[1].id = 3

\* C31: a prune that succeeds leaves min(rows, 500) rows whatever the number
\* of rows it found (so however many earlier prunes failed or have not run):
\* the rows left are rows of the table before it, in their order, and no row
\* it removed has a greater timestamp than a row it left.
C31_PruneKeepsNewest ==
  [][(prunes' < prunes /\ pruned' = "ok") =>
       LET kept == RowSet(history')
           gone == RowSet(history) \ kept
       IN /\ Len(history') = (IF Len(history) < HistoryCap THEN Len(history) ELSE HistoryCap)
          /\ history' = DeleteNotIn(history, kept)
          /\ \A g \in gone : \A k \in kept : g.timestamp <= k.timestamp]_vars

\* C31 witness: two requests had brought the table to 502 rows with no prune
\* run in between; the first prune to run has removed both oldest rows, the
\* other prune is still pending.
C31_Witness ==
  /\ lastRowId = HistoryCap + 2
  /\ prunes = 1 /\ pruned = "ok"
  /\ Len(history) = HistoryCap
  /\ history[1].id = 3 /\ history[HistoryCap].id = HistoryCap + 2

\* C32: no simulate call leaves fetch as a thrown error, and a call whose
\* durable write failed is answered 500 with the error 'Simulation error'.
C32_ErrorsCaughtInFetch ==
  ~IsNull(answered) =>
    LET a == Val(answered) IN
    /\ ~a.response.thrown
    /\ a.put = "failed" =>
         /\ a.response.status = 500
         /\ a.response.error = "Simulation error"

\* the record a call hands to its caller when it starts in this step with a
\* valid body and a durable write that succeeds: the local it keeps while
\* suspended, or the record it answers with at once
C33_StartedRecord(c) ==
  IF pc'[c] = "awaitAI" THEN loc'[c].simulation
  ELSE IF Succeeded(Val(answered')) THEN Val(answered').response.simulation
  ELSE Null

\* C33: when a simulate call starts after the call before it has returned
\* 200, its record's startTime is not less than the startTime of the record
\* that call returned.  The record the earlier call returned is the one in
\* the durable blob from its return until the later call starts, and the
\* record a suspended call returns is the one it made when it started.
C33_StartsInOrder ==
  [][\A c \in Calls \ {1} :
       LET d == c - 1 IN
       /\ (/\ pc[c] = "idle" /\ pc'[c] = "idle"
           /\ ~IsNull(answered') /\ Val(answered').call = d /\ Succeeded(Val(answered')))
            => /\ ~IsNull(stored')
               /\ Val(stored').currentSimulation = Val(answered').response.simulation
       /\ (pc[d] = "done" /\ pc[c] = "idle" /\ pc'[c] = "idle") => stored' = stored
       /\ (pc[d] = "done" /\ pc[c] = "idle" /\ pc'[c] # "idle" /\ ~IsNull(stored))
            => \/ IsNull(C33_StartedRecord(c))
               \/ Val(Val(stored).currentSimulation).startTime
                    <= Val(C33_StartedRecord(c)).startTime
       /\ (/\ pc[c] = "awaitAI"
           /\ ~IsNull(answered') /\ Val(answered').call = c /\ Succeeded(Val(answered')))
            => Val(answered').response.simulation = loc[c].simulation]_vars

\* C33 witness: call 1 returned, the object was re-created and restored call
\* 1's record from the blob, time passed, and call 2 has returned a record
\* that started later.
C33_Witness ==
  /\ ~IsNull(answered) /\ Val(answered).call = 2 /\ Succeeded(Val(answered))
  /\ ~IsNull(loaded)
  /\ Val(Val(loaded).currentSimulation).id = SimId(1)
  /\ Val(Val(loaded).currentSimulation).startTime
       < Val(Val(answered).response.simulation).startTime

\* C34: a request to /api/simulate whose method is neither POST nor OPTIONS
\* is answered 405 'Method not allowed'; the step that answers it calls no
\* Durable Object, inserts no row, hands over no prune and leaves the
\* object's memory and blob, the table and every request in flight as they
\* were.
C34_MethodNotAllowedNoEffect ==
  [][(~IsNull(workerResp') /\ Val(workerResp').route = "notPost") =>
       /\ Val(workerResp').response.status = 405
       /\ Val(workerResp').response.data.error = "Method not allowed"
       /\ IsNull(Val(workerResp').doResponse)
       /\ Val(workerResp').insert = "none"
       /\ IsNull(answered') /\ IsNull(statusResp')
       /\ UNCHANGED <<currentSimulation, metrics, stored, pc, loc, history, lastRowId,
                      inserted, prunes, wpc, wloc>>]_vars

\* C34 witness: a simulation had been stored and a row inserted, another
\* request is on its way between the Durable Object and the INSERT, and a
\* request with another method has been answered 405.
C34_Witness ==
  /\ ~IsNull(workerResp)
  /\ Val(workerResp).route = "notPost"
  /\ Val(workerResp).response.status = 405
  /\ Len(history) = 1 /\ ~IsNull(stored)
  /\ \E w \in Requests : wpc[w] = "gotDO"

\* C37: a timer is armed only for a call that is waiting on the capability;
\* when getAIExplanation returns, the call's timer is gone: cleared by the
\* finally block when the run resolved or threw, fired when it was the timer
\* that ended the run, never started when there was no binding.
C37_NoTimerOutlivesCall ==
  /\ \A c \in Calls : ~InFlight(c) => timer[c] = NoTimer
  /\ ~IsNull(explained) =>
       LET e == Val(explained) IN
       /\ timer[e.call] = NoTimer
       /\ e.outcome \in {"returned", "threw"} => e.timer = "cleared"
       /\ e.outcome = "aborted" => e.timer = "fired"
       /\ e.outcome = "nobinding" => e.timer = "none"

\* C37 witness: the capability resolved with nothing usable before the 5000
\* ms were over; the call returned the canned text and its timer is cleared.
C37_Witness ==
  /\ ~IsNull(explained)
  /\ Val(explained).outcome = "returned"
  /\ trimmed(Val(explained).result) = <<>>
  /\ Val(explained).until < Val(explained).since + AITimeoutMs
  /\ Val(explained).timer = "cleared"
  /\ timer[Val(explained).call] = NoTimer

\* C35: loading is true exactly while the simulate request of this dashboard
\* is in flight (there is never more than one), and it is false in the state
\* that follows the end of a simulate request, whether the response was ok,
\* was not ok, or the request threw; so the buttons, disabled by loading, are
\* enabled again.
C35_LoadingOnlyInFlight ==
  /\ Len(appFetch.simulate) <= 1
  /\ app.loading = (Len(appFetch.simulate) = 1)
  /\ (~IsNull(appDone) /\ Val(appDone).op = "simulate") =>
       /\ ~app.loading
       /\ ENABLED handleSimulateClick

\* C35 witness: a simulate request has failed with an error that carries no
\* message; the default message is shown and loading is false again.
C35_Witness ==
  /\ ~IsNull(appDone)
  /\ Val(appDone) = [op |-> "simulate", ok |-> FALSE]
  /\ app.error = Some(Str(<<"Failed to trigger simulation">>))
  /\ ~app.loading
  /\ appFetch.simulate = <<>>

\* C36: after a poll of /api/metrics or /api/status that failed an error
\* message is shown, and after one that succeeded none is.
C36_FailedPollSurfaced ==
  (~IsNull(appDone) /\ Val(appDone).op \in {"metrics", "status"}) =>
    (IF Val(appDone).ok THEN IsNull(app.error) ELSE ~IsNull(app.error))

====
